---------------------------- MODULE Spec2Model ----------------------------
(***************************************************************************)
(* A model of the Context Engine: the engine facade (initialize, query,    *)
(* dispose, registerRetriever), the strategy selector, candidate fusion,   *)
(* the ranker, the budget allocator, the token counter and the prompt      *)
(* packer.                                                                 *)
(*                                                                         *)
(* Strings are sequences of one-character strings, so that the token       *)
(* counter, the formatter and the truncation act on characters as the      *)
(* code does.  Scores are fixed-point numbers in units of 1/Scale.         *)
(* Wall-clock time is counted in whole hours.                               *)
(***************************************************************************)
EXTENDS Integers, Sequences, FiniteSets, TLC

VARIABLES
    initialized,   \* ContextEngine.initialized
    retrievers,    \* ContextEngine.retrievers: method name -> retriever
    clock,         \* the wall clock read by Date.now(), in hours
    queries,       \* the query() calls: position, request, retriever promises, outcome
    lastCall,      \* history: the last lifecycle call made on the engine, and how many
    pcPipe,        \* position of the stand-alone fuse/rank/pack pipeline
    pipeIn,        \* its input: candidates, intent, token budget
    pipeRanked,    \* the list Ranker.rank returned
    pipePacked,    \* the PackingResult PromptPacker.pack returned
    call,          \* a call of one component on its own: operation, arguments, result
    cache,         \* TokenCounter.cache of the token counter called on its own
    secrets,       \* the secret storage of the IDE: storage key -> value
    keyLog         \* history: provider -> the key last stored, if not deleted since

vars == <<initialized, retrievers, clock, queries, lastCall,
          pcPipe, pipeIn, pipeRanked, pipePacked, call, cache, secrets, keyLog>>

engineVars == <<initialized, retrievers, clock, queries, lastCall>>
pipeVars == <<pcPipe, pipeIn, pipeRanked, pipePacked>>
keyVars == <<secrets, keyLog>>
unitVars == <<call, cache, secrets, keyLog>>

---------------------------------------------------------------------------
(* Bounds of the model *)

MaxClock == 2       \* the clock stops ticking here
MaxCands == 2       \* longest candidate list given to the stand-alone pipeline
MaxCallCount == 3   \* the count of lifecycle calls is kept up to here

---------------------------------------------------------------------------
(* Arithmetic helpers *)

Scale == 10 * 10 * 10 * 10      \* fixed-point unit: a score s stands for s/Scale

Min(a, b) == IF a <= b THEN a ELSE b
Max(a, b) == IF a >= b THEN a ELSE b

RECURSIVE SumSeq(_)
SumSeq(s) == IF s = <<>> THEN 0 ELSE Head(s) + SumSeq(Tail(s))

---------------------------------------------------------------------------
(* Characters and strings *)

LowerCase == <<"a", "b", "c", "d", "e", "f", "g", "h", "i", "j", "k", "l", "m",
               "n", "o", "p", "q", "r", "s", "t", "u", "v", "w", "x", "y", "z">>
UpperCase == <<"A", "B", "C", "D", "E", "F", "G", "H", "I", "J", "K", "L", "M",
               "N", "O", "P", "Q", "R", "S", "T", "U", "V", "W", "X", "Y", "Z">>
Digits == <<"0", "1", "2", "3", "4", "5", "6", "7", "8", "9">>

Range(s) == {s[i] : i \in DOMAIN s}

SpaceChars == {" ", "\n", "\t"}                               \* \s
DigitChars == Range(Digits)                                  \* \d
WordChars ==                                                 \* \w
    Range(LowerCase) \cup Range(UpperCase) \cup Range(Digits) \cup {"_"}
PunctChars ==                                                \* [.,;:!?(){}[\]<>]
    {".", ",", ";", ":", "!", "?", "(", ")", "{", "}", "[", "]", "<", ">"}
UpperChars == Range(UpperCase)

IsSpace(c) == c \in SpaceChars
IsDigit(c) == c \in DigitChars
IsWordChar(c) == c \in WordChars
IsPunct(c) == c \in PunctChars

\* String.prototype.toLowerCase, one character
LowerChar(c) ==
    IF c \in UpperChars
    THEN LowerCase[CHOOSE i \in DOMAIN UpperCase : UpperCase[i] = c]
    ELSE c

toLowerCase(s) == [i \in DOMAIN s |-> LowerChar(s[i])]

\* String.prototype.substring(0, n)
substring(s, n) == SubSeq(s, 1, Min(Max(n, 0), Len(s)))

\* String.prototype.includes
includes(s, sub) ==
    \E i \in 1..(Len(s) - Len(sub) + 1) : SubSeq(s, i, i + Len(sub) - 1) = sub

\* the decimal digits of a natural number
RECURSIVE ToDecimal(_)
ToDecimal(n) ==
    IF n < 10 THEN <<Digits[n + 1]>>
    ELSE ToDecimal(n \div 10) \o <<Digits[(n % 10) + 1]>>

\* Number.prototype.toFixed(3) of the fixed-point score s (0 <= s)
toFixed3(s) ==
    LET thousandths == (s * 1000 + Scale \div 2) \div Scale
        frac == thousandths % 1000
    IN  ToDecimal(thousandths \div 1000) \o <<".">> \o
        <<Digits[(frac \div 100) + 1], Digits[((frac \div 10) % 10) + 1],
          Digits[(frac % 10) + 1]>>

\* the string made of n copies of unit
Repeat(unit, n) ==
    [i \in 1..(n * Len(unit)) |-> unit[((i - 1) % Len(unit)) + 1]]

---------------------------------------------------------------------------
(* TokenCounter *)

\* text.split(/\s+/).filter(w => w.length > 0).length
CountWords(text) ==
    Cardinality({i \in DOMAIN text :
        ~IsSpace(text[i]) /\ (i = 1 \/ IsSpace(text[i - 1]))})

\* (text.match(/\d+/g) || []).length
CountNumbers(text) ==
    Cardinality({i \in DOMAIN text :
        IsDigit(text[i]) /\ (i = 1 \/ ~IsDigit(text[i - 1]))})

\* (text.match(/[.,;:!?(){}[\]<>]/g) || []).length
CountPunctuation(text) == Cardinality({i \in DOMAIN text : IsPunct(text[i])})

\* words + punctuation + 1.5 * numbers, rounded up
countTokensInternal(text) ==
    LET words == CountWords(text)
        punctuation == CountPunctuation(text)
        numbers == CountNumbers(text)
    IN  words + punctuation + (3 * numbers + 1) \div 2

\* The cache of countTokens stores countTokensInternal(text) under text and
\* returns it unchanged, so the value returned is countTokensInternal(text).
countTokens(text) == countTokensInternal(text)

\* TokenCounter.cache is a set of <<key, count>> pairs, one pair a key

\* a cache key that is the length of the text
cacheKeyByLength(text) == Len(text)

\* the key under which the count of a text is cached: the text
cacheKey(text) == text

\* this.cache.get(text): <<>> when undefined, else <<count>>
cacheGet(c, text) ==
    IF \E entry \in c : entry[1] = cacheKey(text)
    THEN <<(CHOOSE entry \in c : entry[1] = cacheKey(text))[2]>>
    ELSE <<>>

\* this.cache.set(text, count)
cacheSet(c, text, count) ==
    {entry \in c : entry[1] # cacheKey(text)} \cup {<<cacheKey(text), count>>}

\* countTokens on the cache c: the value returned and the cache afterwards
countTokensCached(c, text) ==
    LET cached == cacheGet(c, text)
        count == countTokensInternal(text)
    IN  IF cached # <<>> THEN [value |-> cached[1], cache |-> c]
        ELSE [value |-> count, cache |-> cacheSet(c, text, count)]

\* texts.reduce((total, text) => total + this.countTokens(text), 0) from text i
\* on, with the total so far
RECURSIVE countTokensInTextsFrom(_, _, _, _)
countTokensInTextsFrom(c, texts, i, total) ==
    IF i > Len(texts) THEN [value |-> total, cache |-> c]
    ELSE LET r == countTokensCached(c, texts[i])
         IN  countTokensInTextsFrom(r.cache, texts, i + 1, total + r.value)

countTokensInTexts(c, texts) == countTokensInTextsFrom(c, texts, 1, 0)

---------------------------------------------------------------------------
(* Retrieval candidates *)

Methods == {"semantic", "lexical", "dependency", "recent_edits"}

\* the characters of a RetrievalMethod value
MethodChars(m) ==
    CASE m = "semantic" -> <<"s", "e", "m", "a", "n", "t", "i", "c">>
      [] m = "lexical" -> <<"l", "e", "x", "i", "c", "a", "l">>
      [] m = "dependency" -> <<"d", "e", "p", "e", "n", "d", "e", "n", "c", "y">>
      [] m = "recent_edits" ->
            <<"r", "e", "c", "e", "n", "t", "_", "e", "d", "i", "t", "s">>

\* A RetrievalCandidate.  An optional field is a sequence, empty when the
\* field is absent: lineRange is <<>> or <<start, end>>, lastModified is <<>>
\* or <<hour>>; symbolType is "" when absent.
Candidate(path, content, score, method, lineRange, lastModified, symbolType) ==
    [filePath |-> path, content |-> content, score |-> score, method |-> method,
     lineRange |-> lineRange, lastModified |-> lastModified,
     symbolType |-> symbolType]

\* Array.prototype.sort((a, b) => b.score - a.score): stable, descending.
\* InsertByScore puts c behind every element whose score is >= c.score.
InsertByScore(sorted, c) ==
    LET k == Cardinality({i \in DOMAIN sorted : sorted[i].score >= c.score})
    IN  SubSeq(sorted, 1, k) \o <<c>> \o SubSeq(sorted, k + 1, Len(sorted))

RECURSIVE SortByScoreFrom(_, _, _)
SortByScoreFrom(list, i, sorted) ==
    IF i > Len(list) THEN sorted
    ELSE SortByScoreFrom(list, i + 1, InsertByScore(sorted, list[i]))

SortByScore(list) == SortByScoreFrom(list, 1, <<>>)

---------------------------------------------------------------------------
(* PromptPacker, with the default configuration *)

includeFilePaths == TRUE
includeLineNumbers == TRUE
itemSeparator == <<"\n", "\n", "-", "-", "-", "\n", "\n">>
maxTokensPerItem == 1000
TruncateMinRemaining == 100     \* pack: remainingBudget > 100
TruncateMinContent == 50        \* truncateItem: contentBudget <= 50
CharsPerToken == 4              \* truncateContent: tokenBudget * 4
TruncationMarker ==
    <<"\n", "\n", "[", ".", ".", ".", " ", "t", "r", "u", "n", "c", "a", "t",
      "e", "d", " ", ".", ".", ".", "]">>

formatContextItem(candidate) ==
    LET withPath ==
            IF includeFilePaths
            THEN <<"F", "i", "l", "e", ":", " ">> \o candidate.filePath \o
                 <<"\n", "\n">> \o candidate.content
            ELSE candidate.content
        withLines ==
            IF includeLineNumbers /\ candidate.lineRange # <<>>
            THEN <<"L", "i", "n", "e", "s", " ">> \o
                 ToDecimal(candidate.lineRange[1]) \o <<"-">> \o
                 ToDecimal(candidate.lineRange[2]) \o <<"\n">> \o withPath
            ELSE withPath
    IN  [name |-> candidate.filePath,
         description |->
            <<"S", "c", "o", "r", "e", ":", " ">> \o toFixed3(candidate.score) \o
            <<" ", "|", " ", "M", "e", "t", "h", "o", "d", ":", " ">> \o
            MethodChars(candidate.method),
         content |-> withLines]

countItemTokens(item) ==
    countTokens(item.name)
    + (IF item.description # <<>> THEN countTokens(item.description) ELSE 0)
    + countTokens(item.content)
    + countTokens(itemSeparator)

truncateContent(content, tokenBudget) ==
    LET estimatedChars == tokenBudget * CharsPerToken
    IN  IF Len(content) <= estimatedChars THEN content
        ELSE substring(content, estimatedChars)

\* truncateItem that leaves out the marker
truncateItemUnmarked(item, tokenBudget) ==
    LET overhead ==
            countTokens(item.name)
            + (IF item.description # <<>> THEN countTokens(item.description) ELSE 0)
            + countTokens(itemSeparator)
        contentBudget == tokenBudget - overhead
    IN  IF contentBudget <= TruncateMinContent THEN <<>>
        ELSE <<[item EXCEPT !.content = truncateContent(item.content, contentBudget)]>>

\* <<>> stands for null, <<item>> for an item
truncateItem(item, tokenBudget) ==
    LET overhead ==
            countTokens(item.name)
            + (IF item.description # <<>> THEN countTokens(item.description) ELSE 0)
            + countTokens(itemSeparator)
        contentBudget == tokenBudget - overhead
    IN  IF contentBudget <= TruncateMinContent THEN <<>>
        ELSE <<[item EXCEPT !.content =
                    truncateContent(item.content, contentBudget) \o TruncationMarker]>>

\* the state of pack's loop: items, tokensUsed, packedCount, truncatedCount
PackStart == [items |-> <<>>, tokensUsed |-> 0, packedCount |-> 0, truncatedCount |-> 0]

\* the loop of pack that accepts an item only when budget is left over
RECURSIVE PackLoopStrict(_, _, _, _)
PackLoopStrict(sortedCandidates, i, tokenBudget, acc) ==
    IF i > Len(sortedCandidates) THEN acc
    ELSE
        LET contextItem == formatContextItem(sortedCandidates[i])
            itemTokens == countItemTokens(contextItem)
            remainingBudget == tokenBudget - acc.tokensUsed
            truncatedItem == truncateItem(contextItem, remainingBudget)
        IN  IF acc.tokensUsed + itemTokens < tokenBudget
            THEN PackLoopStrict(sortedCandidates, i + 1, tokenBudget,
                    [items |-> Append(acc.items, contextItem),
                     tokensUsed |-> acc.tokensUsed + itemTokens,
                     packedCount |-> acc.packedCount + 1,
                     truncatedCount |-> acc.truncatedCount])
            ELSE IF remainingBudget > TruncateMinRemaining /\ truncatedItem # <<>>
            THEN [items |-> Append(acc.items, truncatedItem[1]),
                  tokensUsed |-> acc.tokensUsed + countItemTokens(truncatedItem[1]),
                  packedCount |-> acc.packedCount + 1,
                  truncatedCount |-> acc.truncatedCount + 1]
            ELSE acc

\* the loop of pack that passes over an item that does not fit
RECURSIVE PackLoopSkipping(_, _, _, _)
PackLoopSkipping(sortedCandidates, i, tokenBudget, acc) ==
    IF i > Len(sortedCandidates) THEN acc
    ELSE
        LET contextItem == formatContextItem(sortedCandidates[i])
            itemTokens == countItemTokens(contextItem)
        IN  IF acc.tokensUsed + itemTokens <= tokenBudget
            THEN PackLoopSkipping(sortedCandidates, i + 1, tokenBudget,
                    [items |-> Append(acc.items, contextItem),
                     tokensUsed |-> acc.tokensUsed + itemTokens,
                     packedCount |-> acc.packedCount + 1,
                     truncatedCount |-> acc.truncatedCount])
            ELSE PackLoopSkipping(sortedCandidates, i + 1, tokenBudget, acc)

RECURSIVE PackLoop(_, _, _, _)
PackLoop(sortedCandidates, i, tokenBudget, acc) ==
    IF i > Len(sortedCandidates) THEN acc
    ELSE
        LET contextItem == formatContextItem(sortedCandidates[i])
            itemTokens == countItemTokens(contextItem)
            remainingBudget == tokenBudget - acc.tokensUsed
            truncatedItem == truncateItem(contextItem, remainingBudget)
        IN  IF acc.tokensUsed + itemTokens <= tokenBudget
            THEN PackLoop(sortedCandidates, i + 1, tokenBudget,
                    [items |-> Append(acc.items, contextItem),
                     tokensUsed |-> acc.tokensUsed + itemTokens,
                     packedCount |-> acc.packedCount + 1,
                     truncatedCount |-> acc.truncatedCount])
            ELSE IF remainingBudget > TruncateMinRemaining /\ truncatedItem # <<>>
            THEN [items |-> Append(acc.items, truncatedItem[1]),
                  tokensUsed |-> acc.tokensUsed + countItemTokens(truncatedItem[1]),
                  packedCount |-> acc.packedCount + 1,
                  truncatedCount |-> acc.truncatedCount + 1]
            ELSE acc

pack(candidates, tokenBudget) ==
    LET sortedCandidates == SortByScore(candidates)
        r == PackLoop(sortedCandidates, 1, tokenBudget, PackStart)
    IN  [items |-> r.items,
         tokensUsed |-> r.tokensUsed,
         packedCount |-> r.packedCount,
         truncatedCount |-> r.truncatedCount,
         wasTruncated |-> r.truncatedCount > 0 \/ r.packedCount < Len(candidates)]

---------------------------------------------------------------------------
(* TruncationStrategy *)

TruncationModes == {"drop_lowest", "proportional", "keep_first", "smart"}

\* the loop of truncateDropLowest and truncateKeepFirst: keep the candidates
\* of the list while they fit, stop at the first that does not
RECURSIVE KeepLoop(_, _, _, _)
KeepLoop(list, i, tokenBudget, acc) ==
    IF i > Len(list) THEN acc
    ELSE
        LET tokens == countTokens(list[i].content)
        IN  IF acc.totalTokens + tokens <= tokenBudget
            THEN KeepLoop(list, i + 1, tokenBudget,
                    [kept |-> Append(acc.kept, list[i]),
                     totalTokens |-> acc.totalTokens + tokens])
            ELSE acc

truncateDropLowest(candidates, tokenBudget) ==
    LET sorted == SortByScore(candidates)
        r == KeepLoop(sorted, 1, tokenBudget, [kept |-> <<>>, totalTokens |-> 0])
    IN  [candidates |-> r.kept,
         totalTokens |-> r.totalTokens,
         droppedCount |-> Len(candidates) - Len(r.kept),
         truncatedCount |-> 0,
         mode |-> "drop_lowest"]

\* Math.floor(originalTokens * (tokenBudget / totalTokensNeeded))
targetTokensOf(originalTokens, tokenBudget, totalTokensNeeded) ==
    (originalTokens * tokenBudget) \div totalTokensNeeded

truncateProportional(candidates, tokenBudget) ==
    LET totalTokensNeeded ==
            SumSeq([i \in DOMAIN candidates |-> countTokens(candidates[i].content)])
        targetChars(c) ==
            targetTokensOf(countTokens(c.content), tokenBudget, totalTokensNeeded)
            * CharsPerToken
        wasTruncated(c) == Len(c.content) > targetChars(c)
        truncated ==
            [i \in DOMAIN candidates |->
                IF ~wasTruncated(candidates[i]) THEN candidates[i]
                ELSE [candidates[i] EXCEPT
                        !.content = substring(@, targetChars(candidates[i]))
                                    \o TruncationMarker]]
    IN  IF Len(candidates) = 0
        THEN [candidates |-> <<>>, totalTokens |-> 0, droppedCount |-> 0,
              truncatedCount |-> 0, mode |-> "proportional"]
        ELSE IF totalTokensNeeded <= tokenBudget
        THEN [candidates |-> candidates, totalTokens |-> totalTokensNeeded,
              droppedCount |-> 0, truncatedCount |-> 0, mode |-> "proportional"]
        ELSE [candidates |-> truncated,
              totalTokens |->
                SumSeq([i \in DOMAIN truncated |-> countTokens(truncated[i].content)]),
              droppedCount |-> 0,
              truncatedCount |->
                Cardinality({i \in DOMAIN candidates : wasTruncated(candidates[i])}),
              mode |-> "proportional"]

truncateKeepFirst(candidates, tokenBudget) ==
    LET r == KeepLoop(candidates, 1, tokenBudget, [kept |-> <<>>, totalTokens |-> 0])
    IN  [candidates |-> r.kept,
         totalTokens |-> r.totalTokens,
         droppedCount |-> Len(candidates) - Len(r.kept),
         truncatedCount |-> 0,
         mode |-> "keep_first"]

\* for now the smart strategy is DROP_LOWEST
truncateSmart(candidates, tokenBudget) == truncateDropLowest(candidates, tokenBudget)

truncate(candidates, tokenBudget, mode) ==
    CASE mode = "drop_lowest" -> truncateDropLowest(candidates, tokenBudget)
      [] mode = "proportional" -> truncateProportional(candidates, tokenBudget)
      [] mode = "keep_first" -> truncateKeepFirst(candidates, tokenBudget)
      [] mode = "smart" -> truncateSmart(candidates, tokenBudget)
      [] OTHER -> truncateDropLowest(candidates, tokenBudget)

---------------------------------------------------------------------------
(* CandidateFusion, as the engine constructs it: new CandidateFusion() *)

rrfK == 60
DefaultMethodWeight == Scale            \* methodWeights?.get(method) ?? 1.0
deduplicate == TRUE
deduplicationThreshold == (9 * Scale) \div 10
NaN == 0 - 1                            \* 0/0; NaN >= x is false for every x

getCandidateKey(candidate) ==
    candidate.filePath \o <<":">> \o
    (IF candidate.lineRange # <<>>
     THEN ToDecimal(candidate.lineRange[1]) \o <<"-">> \o
          ToDecimal(candidate.lineRange[2])
     ELSE <<"f", "u", "l", "l">>)

normalizeRRFScore(rrfScore) == (rrfScore * Scale) \div (rrfScore + Scale)

\* content.toLowerCase().split(/\W+/).filter(token => token.length > 2), as a set
tokenize(content) ==
    LET low == toLowerCase(content)
        n == Len(low)
        starts == {i \in 1..n : IsWordChar(low[i]) /\ (i = 1 \/ ~IsWordChar(low[i - 1]))}
        EndOf(i) == CHOOSE j \in i..n :
                        /\ \A k \in i..j : IsWordChar(low[k])
                        /\ (j = n \/ ~IsWordChar(low[j + 1]))
    IN  {t \in {SubSeq(low, i, EndOf(i)) : i \in starts} : Len(t) > 2}

\* overlap that does not count a shared boundary line
hasOverlappingLinesStrict(a, b) ==
    IF a.lineRange = <<>> \/ b.lineRange = <<>> THEN FALSE
    ELSE ~(a.lineRange[2] <= b.lineRange[1] \/ b.lineRange[2] <= a.lineRange[1])

hasOverlappingLines(a, b) ==
    IF a.lineRange = <<>> \/ b.lineRange = <<>> THEN FALSE
    ELSE ~(a.lineRange[2] < b.lineRange[1] \/ b.lineRange[2] < a.lineRange[1])

calculateSimilarity(a, b) ==
    IF a.filePath = b.filePath /\ hasOverlappingLines(a, b) THEN Scale
    ELSE
        LET tokensA == tokenize(a.content)
            tokensB == tokenize(b.content)
            intersection == tokensA \cap tokensB
            union == tokensA \cup tokensB
        IN  IF Cardinality(union) = 0 THEN NaN
            ELSE (Cardinality(intersection) * Scale) \div Cardinality(union)

RECURSIVE DedupLoop(_, _, _)
DedupLoop(sorted, i, deduplicated) ==
    IF i > Len(sorted) THEN deduplicated
    ELSE
        LET isDuplicate ==
                \E j \in DOMAIN deduplicated :
                    calculateSimilarity(sorted[i], deduplicated[j])
                        >= deduplicationThreshold
        IN  DedupLoop(sorted, i + 1,
                IF isDuplicate THEN deduplicated ELSE Append(deduplicated, sorted[i]))

deduplicateCandidates(candidates) == DedupLoop(SortByScore(candidates), 1, <<>>)

\* the (candidate, RRF contribution) pairs in the order fuse visits them
RECURSIVE FuseEntries(_, _)
FuseEntries(candidateLists, l) ==
    IF l > Len(candidateLists) THEN <<>>
    ELSE
        LET candidates == candidateLists[l]
            weight == DefaultMethodWeight
        IN  [rank \in 1..Len(candidates) |->
                [candidate |-> candidates[rank],
                 key |-> getCandidateKey(candidates[rank]),
                 rrfScore |-> weight \div (rrfK + (rank - 1) + 1)]]
            \o FuseEntries(candidateLists, l + 1)

\* keys of a Map in insertion order, given the sequence of set() calls
RECURSIVE FirstOccurrences(_, _)
FirstOccurrences(entries, i) ==
    IF i > Len(entries) THEN <<>>
    ELSE (IF \E j \in 1..(i - 1) : entries[j].key = entries[i].key
          THEN <<>> ELSE <<i>>) \o FirstOccurrences(entries, i + 1)

\* fuse, steps 1 and 2: the candidates with their normalized RRF scores, in the
\* insertion order of candidateMap
fuseScores(candidateLists) ==
    LET entries == FuseEntries(candidateLists, 1)
        firsts == FirstOccurrences(entries, 1)
        Same(i) == {j \in DOMAIN entries : entries[j].key = entries[i].key}
        \* rrfScores.get(key): the accumulated contributions
        RrfOf(i) == SumSeq([j \in DOMAIN entries |->
                        IF j \in Same(i) THEN entries[j].rrfScore ELSE 0])
        \* candidateMap.get(key): replaced only by a strictly higher original score
        KeptOf(i) ==
            LET best == CHOOSE j \in Same(i) :
                    /\ \A k \in Same(i) : entries[k].candidate.score
                                            <= entries[j].candidate.score
                    /\ \A k \in Same(i) : entries[k].candidate.score
                                            = entries[j].candidate.score => j <= k
            IN  entries[best].candidate
    IN  [n \in DOMAIN firsts |->
            [KeptOf(firsts[n]) EXCEPT !.score = normalizeRRFScore(RrfOf(firsts[n]))]]

fuse(candidateLists) ==
    LET fusedCandidates == fuseScores(candidateLists)
        finalCandidates ==
            IF deduplicate THEN deduplicateCandidates(fusedCandidates)
            ELSE fusedCandidates
    IN  SortByScore(finalCandidates)

---------------------------------------------------------------------------
(* Ranker, with the default configuration; weights in hundredths *)

Intents == {"explain", "bug_fix", "refactor", "generate", "test"}

semanticWeight == 50
recencyWeight == 20
fileTypeWeight == 15
symbolTypeWeight == 15
applyDiversityPenaltyEnabled == TRUE
HourDecay == 9048           \* e^(-0.1) in units of 1/Scale

\* Math.exp(-0.1 * ageHours) for a whole number of hours
RECURSIVE ExpDecay(_)
ExpDecay(ageHours) ==
    IF ageHours <= 0 THEN Scale
    ELSE (ExpDecay(ageHours - 1) * HourDecay) \div Scale

\* now is the value of Date.now()
calculateRecencyScore(candidate, now) ==
    IF candidate.lastModified = <<>> THEN Scale \div 2
    ELSE ExpDecay(now - candidate.lastModified[1])

IsTestPath(filePath) ==
    \/ includes(filePath, <<".", "t", "e", "s", "t", ".">>)
    \/ includes(filePath, <<".", "s", "p", "e", "c", ".">>)
    \/ includes(filePath, <<"_", "_", "t", "e", "s", "t", "s", "_", "_">>)

calculateFileTypeScore(candidate, intent) ==
    LET filePath == toLowerCase(candidate.filePath)
    IN  CASE intent = "test" ->
                IF IsTestPath(filePath) THEN Scale ELSE (3 * Scale) \div 10
          [] intent = "bug_fix" ->
                IF IsTestPath(filePath) THEN (3 * Scale) \div 10 ELSE Scale
          [] intent = "refactor" ->
                IF IsTestPath(filePath) THEN (2 * Scale) \div 10 ELSE Scale
          [] OTHER -> Scale \div 2

calculateSymbolTypeScore(candidate, intent) ==
    LET symbolType == candidate.symbolType
    IN  IF symbolType = "" THEN Scale \div 2
        ELSE CASE intent = "refactor" ->
                    IF symbolType \in {"class", "function"} THEN Scale
                    ELSE Scale \div 2
               [] intent = "generate" ->
                    IF symbolType \in {"function", "method"} THEN Scale
                    ELSE Scale \div 2
               [] OTHER -> Scale \div 2

calculateFinalScore(candidate, intent, now) ==
    LET score == ( candidate.score * semanticWeight
                 + calculateRecencyScore(candidate, now) * recencyWeight
                 + calculateFileTypeScore(candidate, intent) * fileTypeWeight
                 + calculateSymbolTypeScore(candidate, intent) * symbolTypeWeight )
                 \div 100
    IN  Max(0, Min(Scale, score))

\* candidates are visited in the order of the list passed in
applyDiversityPenalty(candidates) ==
    [i \in DOMAIN candidates |->
        LET count == Cardinality({j \in 1..(i - 1) :
                        candidates[j].filePath = candidates[i].filePath})
        IN  [candidates[i] EXCEPT !.score = candidates[i].score \div (1 + count)]]

rank(candidates, intent, now) ==
    LET scoredCandidates ==
            [i \in DOMAIN candidates |->
                [candidates[i] EXCEPT
                    !.score = calculateFinalScore(candidates[i], intent, now)]]
        finalCandidates ==
            IF applyDiversityPenaltyEnabled
            THEN applyDiversityPenalty(scoredCandidates)
            ELSE scoredCandidates
    IN  SortByScore(finalCandidates)

---------------------------------------------------------------------------
(* RetrievalStrategySelector; weights in units of 1/Scale *)

Tenths(n) == (n * Scale) \div 10

getExplainStrategy ==
    [methods |-> <<"semantic", "lexical", "dependency">>,
     weights |-> ("semantic" :> Tenths(6)) @@ ("lexical" :> Tenths(3))
                 @@ ("dependency" :> Tenths(1))]

getBugFixStrategy ==
    [methods |-> <<"recent_edits", "semantic", "dependency", "lexical">>,
     weights |-> ("recent_edits" :> Tenths(4)) @@ ("semantic" :> Tenths(3))
                 @@ ("dependency" :> Tenths(2)) @@ ("lexical" :> Tenths(1))]

getRefactorStrategy ==
    [methods |-> <<"dependency", "semantic", "lexical">>,
     weights |-> ("dependency" :> Tenths(5)) @@ ("semantic" :> Tenths(4))
                 @@ ("lexical" :> Tenths(1))]

getGenerateStrategy ==
    [methods |-> <<"semantic", "lexical", "dependency">>,
     weights |-> ("semantic" :> Tenths(6)) @@ ("lexical" :> Tenths(3))
                 @@ ("dependency" :> Tenths(1))]

\* the test strategy with the weights of the refactor strategy
getTestStrategyCopied ==
    [methods |-> <<"dependency", "semantic", "lexical">>,
     weights |-> ("dependency" :> Tenths(5)) @@ ("semantic" :> Tenths(4))
                 @@ ("lexical" :> Tenths(1))]

getTestStrategy ==
    [methods |-> <<"dependency", "semantic", "lexical">>,
     weights |-> ("dependency" :> Tenths(4)) @@ ("semantic" :> Tenths(4))
                 @@ ("lexical" :> Tenths(2))]

selectStrategy(intent) ==
    CASE intent = "explain" -> getExplainStrategy
      [] intent = "bug_fix" -> getBugFixStrategy
      [] intent = "refactor" -> getRefactorStrategy
      [] intent = "generate" -> getGenerateStrategy
      [] intent = "test" -> getTestStrategy
      [] OTHER -> getExplainStrategy

---------------------------------------------------------------------------
(* BudgetAllocator, with the default configuration; percentages in hundredths *)

systemTokens == 50
minContextTokens == 20
maxContextTokens == 8000
contextPercentage == 50
taskPercentage == 10
reservedTokens == 10

\* the percentages of the configuration whatever the intent
adjustPercentagesIgnoringIntent(intent) ==
    [contextPercentage |-> contextPercentage, taskPercentage |-> taskPercentage]

\* intent is "" when the caller gives none
adjustPercentagesForIntent(intent) ==
    CASE intent = "" ->
            [contextPercentage |-> contextPercentage, taskPercentage |-> taskPercentage]
      [] intent = "explain" -> [contextPercentage |-> 60, taskPercentage |-> 5]
      [] intent = "bug_fix" -> [contextPercentage |-> 50, taskPercentage |-> 10]
      [] intent = "refactor" -> [contextPercentage |-> 55, taskPercentage |-> 10]
      [] intent = "generate" -> [contextPercentage |-> 40, taskPercentage |-> 10]
      [] intent = "test" -> [contextPercentage |-> 50, taskPercentage |-> 10]
      [] OTHER ->
            [contextPercentage |-> contextPercentage, taskPercentage |-> taskPercentage]

\* the test of the available budget, off by one
insufficientStrict(availableBudget) == availableBudget < 0

\* allocate: if (availableBudget <= 0)
insufficient(availableBudget) == availableBudget <= 0

NoAllocations == [system |-> 0, input |-> 0, context |-> 0, task |-> 0, output |-> 0]

\* error is "" when allocate returns, else the kind of Error it throws
allocate(totalBudget, inputTokens, intent) ==
    LET fixedCosts == systemTokens + reservedTokens
        availableBudget == totalBudget - fixedCosts - inputTokens
        pct == adjustPercentagesForIntent(intent)
        contextTokens ==
            Max(minContextTokens,
                Min(maxContextTokens,
                    (availableBudget * pct.contextPercentage) \div 100))
        taskTokens == (availableBudget * pct.taskPercentage) \div 100
        usedTokens == systemTokens + inputTokens + contextTokens + taskTokens
                      + reservedTokens
    IN  IF totalBudget <= 0
        THEN [error |-> "TotalBudgetMustBePositive", totalBudget |-> totalBudget,
              allocations |-> NoAllocations, reserved |-> reservedTokens]
        ELSE IF insufficient(availableBudget)
        THEN [error |-> "InsufficientBudget", totalBudget |-> totalBudget,
              allocations |-> NoAllocations, reserved |-> reservedTokens]
        ELSE [error |-> "", totalBudget |-> totalBudget,
              allocations |->
                [system |-> systemTokens, input |-> inputTokens,
                 context |-> contextTokens, task |-> taskTokens,
                 output |-> Max(0, totalBudget - usedTokens)],
              reserved |-> reservedTokens]

---------------------------------------------------------------------------
(* IntentClassifier: rule-based and deterministic, explain by default *)

classify(input) ==
    LET words == tokenize(input)
    IN  IF <<"f", "i", "x">> \in words THEN "bug_fix"
        ELSE IF <<"t", "e", "s", "t">> \in words THEN "test"
        ELSE "explain"

---------------------------------------------------------------------------
(* The stores behind the retrievers.  An index is the list of the records   *)
(* of a store in the order in which the store answers: the vector index and *)
(* the full-text index by descending score for the query, the files of the  *)
(* metadata store most recently modified first.                             *)

\* a record of a store; score is the raw score of the record for the query
\* (cosine or BM25, in units of 1/Scale), lastModified is in hours
StoreRecord(path, content, lineRange, language, lastModified, score) ==
    [filePath |-> path, content |-> content, lineRange |-> lineRange,
     language |-> language, symbolType |-> "", lastModified |-> lastModified,
     score |-> score]

\* vectorStore.search(queryEmbedding, k): up to k records, most similar first
search(index, k) == SubSeq(index, 1, Min(Max(k, 0), Len(index)))

\* metadataStore.fullTextSearch(searchQuery, k): up to k records, best first
fullTextSearch(index, k) == SubSeq(index, 1, Min(Max(k, 0), Len(index)))

\* metadataStore.getRecentlyModifiedFiles(threshold, k): up to k records
\* modified at or after the threshold, most recent first
getRecentlyModifiedFiles(files, threshold, k) ==
    LET Recent(f) == f.lastModified[1] >= threshold
        recent == SelectSeq(files, Recent)
    IN  SubSeq(recent, 1, Min(Max(k, 0), Len(recent)))

---------------------------------------------------------------------------
(* The retrievers, with their default configurations.  An optional field of *)
(* a RetrievalQuery is a sequence, empty when the field is absent.          *)

\* opt ?? default
OrDefault(opt, default) == IF opt = <<>> THEN default ELSE opt[1]

\* the candidate a retriever makes of a store record
Retrieved(record, score, method) ==
    [filePath |-> record.filePath, content |-> record.content, score |-> score,
     method |-> method, lineRange |-> record.lineRange,
     lastModified |-> record.lastModified, symbolType |-> record.symbolType,
     language |-> record.language, rawScore |-> record.score]

filterByFilePatterns(candidates, patterns) ==
    LET Matches(c) == \E i \in DOMAIN patterns : includes(c.filePath, patterns[i])
    IN  SelectSeq(candidates, Matches)

filterByLanguages(candidates, languages) ==
    LET Matches(c) == c.language # "" /\ c.language \in Range(languages)
    IN  SelectSeq(candidates, Matches)

\* steps 5 and 6 of retrieve: the file pattern and language filters
applyFilters(candidates, query) ==
    LET byPattern ==
            IF Len(query.filePatterns) > 0
            THEN filterByFilePatterns(candidates, query.filePatterns)
            ELSE candidates
    IN  IF Len(query.languages) > 0
        THEN filterByLanguages(byPattern, query.languages)
        ELSE byPattern

(* SemanticRetriever *)

SemanticDefaultLimit == 10
minSimilarity == Scale \div 2

\* (rawScore + 1) / 2
SemanticNormalizeScore(rawScore) == (rawScore + Scale) \div 2

SemanticRetrieve(query, index) ==
    LET limit == OrDefault(query.limit, SemanticDefaultLimit)
        vectorResults == search(index, limit)
        minScore == OrDefault(query.minScore, minSimilarity)
        AboveMin(result) == result.score >= minScore
        filteredResults == SelectSeq(vectorResults, AboveMin)
        candidates ==
            [i \in DOMAIN filteredResults |->
                Retrieved(filteredResults[i],
                          SemanticNormalizeScore(filteredResults[i].score), "semantic")]
    IN  applyFilters(candidates, query)

(* LexicalRetriever *)

LexicalDefaultLimit == 10
LexicalMinScore == Scale \div 10
LexicalK == 10

\* rawScore / (rawScore + k)
LexicalNormalizeScore(rawScore) == (rawScore * Scale) \div (rawScore + LexicalK * Scale)

LexicalRetrieve(query, index) ==
    LET limit == OrDefault(query.limit, LexicalDefaultLimit)
        ftsResults == fullTextSearch(index, limit)
        minScore == OrDefault(query.minScore, LexicalMinScore)
        AboveMin(result) == result.score >= minScore
        filteredResults == SelectSeq(ftsResults, AboveMin)
        candidates ==
            [i \in DOMAIN filteredResults |->
                Retrieved(filteredResults[i],
                          LexicalNormalizeScore(filteredResults[i].score), "lexical")]
    IN  applyFilters(candidates, query)

(* RecentEditsRetriever; times in hours *)

RecentDefaultLimit == 10
timeWindowHours == 24
HalfHourDecay == 6065       \* e^(-0.5), timeDecayFactor 0.5, in units of 1/Scale

\* Math.exp(-0.5 * hours) for a whole number of hours, negative when the
\* record was modified after now
RECURSIVE DecayPower(_)
DecayPower(hours) ==
    IF hours = 0 THEN Scale
    ELSE IF hours > 0 THEN (DecayPower(hours - 1) * HalfHourDecay) \div Scale
    ELSE (DecayPower(hours + 1) * Scale) \div HalfHourDecay

\* the time-based score without the clamp
calculateTimeBasedScoreUnclamped(hours) == DecayPower(hours)

\* Math.max(0, Math.min(1, score))
calculateTimeBasedScore(hours) == Max(0, Min(Scale, DecayPower(hours)))

\* the words of the query text, whatever their length
KeywordsOfAnyLength(queryText) ==
    LET low == toLowerCase(queryText)
        n == Len(low)
        starts == {i \in 1..n : ~IsSpace(low[i]) /\ (i = 1 \/ IsSpace(low[i - 1]))}
        EndOf(i) == CHOOSE j \in i..n :
                        /\ \A k \in i..j : ~IsSpace(low[k])
                        /\ (j = n \/ IsSpace(low[j + 1]))
    IN  {SubSeq(low, i, EndOf(i)) : i \in starts}

\* queryText.toLowerCase().split(/\s+/).filter(word => word.length > 2), as a set
Keywords(queryText) ==
    LET low == toLowerCase(queryText)
        n == Len(low)
        starts == {i \in 1..n : ~IsSpace(low[i]) /\ (i = 1 \/ IsSpace(low[i - 1]))}
        EndOf(i) == CHOOSE j \in i..n :
                        /\ \A k \in i..j : ~IsSpace(low[k])
                        /\ (j = n \/ IsSpace(low[j + 1]))
    IN  {w \in {SubSeq(low, i, EndOf(i)) : i \in starts} : Len(w) > 2}

filterByRelevance(candidates, queryText) ==
    LET keywords == Keywords(queryText)
        Relevant(c) ==
            \E keyword \in keywords :
                \/ includes(toLowerCase(c.content), keyword)
                \/ includes(toLowerCase(c.filePath), keyword)
    IN  IF keywords = {} THEN candidates ELSE SelectSeq(candidates, Relevant)

RecentEditsRetrieve(query, files, now) ==
    LET threshold == now - timeWindowHours
        limit == OrDefault(query.limit, RecentDefaultLimit)
        recentFiles == getRecentlyModifiedFiles(files, threshold, limit * 2)
        candidates ==
            [i \in DOMAIN recentFiles |->
                Retrieved(recentFiles[i],
                          calculateTimeBasedScore(now - recentFiles[i].lastModified[1]),
                          "recent_edits")]
        filteredCandidates == filterByRelevance(candidates, query.text)
        sorted == SortByScore(applyFilters(filteredCandidates, query))
    IN  SubSeq(sorted, 1, Min(Max(limit, 0), Len(sorted)))

(* DependencyWalker *)

DependencyDefaultLimit == 10

\* findStartingNodes: a placeholder that finds no node, whatever the symbols
findStartingNodes(symbols) == <<>>

\* retrieve returns [] when extractSymbols finds no symbol and when
\* findStartingNodes finds no node; walkGraph, a placeholder, adds no
\* candidate.  The symbols are not computed: the result does not depend on them.
DependencyRetrieve(query) ==
    LET startingNodes == findStartingNodes(query.text)
        candidates == <<>>
        limit == OrDefault(query.limit, DependencyDefaultLimit)
        sortedCandidates ==
            SubSeq(SortByScore(candidates), 1, Min(Max(limit, 0), Len(candidates)))
    IN  IF startingNodes = <<>> THEN <<>> ELSE applyFilters(sortedCandidates, query)

---------------------------------------------------------------------------
(* SecureApiKeyManager.  A string is a sequence of characters; an optional   *)
(* string is <<>> when undefined and <<string>> when defined.                *)

KEY_PREFIX ==
    <<"c", "o", "n", "t", "i", "n", "u", "e", ".", "a", "p", "i", "K", "e", "y", ".">>

Providers ==
    {<<"a", "n", "t", "h", "r", "o", "p", "i", "c">>, <<"o", "p", "e", "n", "a", "i">>}
ApiKeys == {<<>>, <<" ">>, <<"k", "1">>, <<"k", "2">>}

\* no provider has a key stored
NoKeys == [p \in Providers |-> <<>>]

\* the secret storage before anything is written
NoSecrets == [k \in {} |-> <<>>]

\* ide.writeSecrets({[key]: value})
writeSecrets(store, key, value) ==
    [k \in DOMAIN store \cup {key} |-> IF k = key THEN value ELSE store[k]]

\* ide.readSecrets([key])[key]
readSecrets(store, key) == IF key \in DOMAIN store THEN <<store[key]>> ELSE <<>>

getStorageKey(provider) == KEY_PREFIX \o provider

storeApiKey(store, provider, apiKey) ==
    writeSecrets(store, getStorageKey(provider), apiKey)

\* value === "" ? undefined : value
getApiKey(store, provider) ==
    LET value == readSecrets(store, getStorageKey(provider))
    IN  IF value = <<(<<>>)>> THEN <<>> ELSE value

\* an empty string is stored to delete the key
deleteApiKey(store, provider) == writeSecrets(store, getStorageKey(provider), <<>>)

hasApiKey(store, provider) ==
    LET apiKey == getApiKey(store, provider)
    IN  apiKey # <<>> /\ apiKey[1] # <<>>

\* String.prototype.trim
RECURSIVE trim(_)
trim(str) ==
    IF str = <<>> THEN str
    ELSE IF IsSpace(Head(str)) THEN trim(Tail(str))
    ELSE IF IsSpace(str[Len(str)]) THEN trim(SubSeq(str, 1, Len(str) - 1))
    ELSE str

\* apiKey && apiKey.trim() !== ""
hasKeyToMigrate(apiKey) == apiKey # <<>> /\ trim(apiKey) # <<>>

migrateFromConfig(store, provider, apiKey) ==
    IF hasKeyToMigrate(apiKey) THEN storeApiKey(store, provider, apiKey) ELSE store

---------------------------------------------------------------------------
(* The workspace behind the registered retrievers, and the requests *)

BigWords == 120     \* words in the content of the large chunk

PathA == <<"a", ".", "t", "s">>
PathB == <<"b", ".", "t", "s">>
PathATest == <<"a", ".", "t", "e", "s", "t", ".", "t", "s">>
SmallContent == <<"f", "o", "o", " ", "b", "a", "r", " ", "b", "a", "z">>
OtherContent == <<"q", "u", "x", " ", "q", "u", "u", "x">>
TestContent == <<"t", "e", "s", "t", " ", "f", "o", "o">>
BigContent == Repeat(<<"a", "a", "a", " ">>, BigWords)

\* What each retriever finds in the stores; the stores do not change.
\* recent_edits finds nothing.
StoreCandidates(m) ==
    CASE m = "semantic" ->
            <<Candidate(PathA, SmallContent, Tenths(9), "semantic", <<1, 10>>, <<0>>,
                        "function"),
              Candidate(PathA, OtherContent, Tenths(8), "semantic", <<20, 30>>, <<>>, "")>>
      [] m = "lexical" ->
            <<Candidate(PathA, SmallContent, Tenths(7), "lexical", <<1, 10>>, <<0>>,
                        "function"),
              Candidate(PathATest, TestContent, Tenths(5), "lexical", <<>>, <<>>, "")>>
      [] m = "dependency" ->
            <<Candidate(PathB, BigContent, Tenths(8), "dependency", <<1, 200>>, <<>>,
                        "class")>>
      [] OTHER -> <<>>

\* IRetriever.retrieve of a registered retriever that completes
StubRetrieve(m, retrievalQuery) ==
    SubSeq(StoreCandidates(m), 1, Min(retrievalQuery.limit, Len(StoreCandidates(m))))

InputFix == <<"f", "i", "x", " ", "a">>
InputWhat == <<"w", "h", "a", "t", " ", "i", "s", " ", "i", "t">>
Inputs == {InputFix, InputWhat}
Budgets == {0, 63, 240}
Requests ==
    [input : Inputs, intent : Intents \cup {""}, tokenBudget : Budgets]

---------------------------------------------------------------------------
(* ContextEngine *)

QueryIds == {1, 2}
RetrievalLimit == 20

\* no component is called on its own
NoCall == [pc |-> "off", op |-> "", args |-> <<>>, result |-> <<>>]

NoRequest == [input |-> <<>>, intent |-> "", tokenBudget |-> 0]
NoStrategy == [methods |-> <<>>, weights |-> <<>>]
NoOutcome ==
    [kind |-> "none", error |-> "", items |-> <<>>, intent |-> "", tokensUsed |-> 0,
     retrievalMethods |-> <<>>]
Failure(error) == [NoOutcome EXCEPT !.kind = "error", !.error = error]

\* a query() call that has not been made
IdleQuery ==
    [pc |-> "idle", request |-> NoRequest, intent |-> "", strategy |-> NoStrategy,
     invoked |-> {}, pending |-> {}, failed |-> {},
     lists |-> [m \in Methods |-> <<>>], fused |-> <<>>, outcome |-> NoOutcome]

Init ==
    /\ initialized = FALSE
    /\ retrievers = {}
    /\ clock = 0
    /\ queries = [id \in QueryIds |-> IdleQuery]
    /\ lastCall = [name |-> "none", count |-> 0]
    /\ pcPipe = "off"
    /\ pipeIn = <<>>
    /\ pipeRanked = <<>>
    /\ pipePacked = <<>>
    /\ call = NoCall
    /\ cache = {}
    /\ secrets = NoSecrets
    /\ keyLog = NoKeys

LifecycleCall(name) ==
    [name |-> name, count |-> Min(lastCall.count + 1, MaxCallCount)]

\* validate without the check of the initialized flag
validateBudgetOnly(isInitialized, tokenBudget) ==
    IF tokenBudget <= 0 THEN "TokenBudgetMustBePositive" ELSE ""

\* query(): the two validations; "" when both pass
validate(isInitialized, tokenBudget) ==
    IF ~isInitialized THEN "NotInitialized"
    ELSE IF tokenBudget <= 0 THEN "TokenBudgetMustBePositive"
    ELSE ""

\* resolveIntent that always asks the classifier
resolveIntentByClassifier(req) == classify(req.input)

\* query(): the intent of the request, or the classifier's
resolveIntent(req) ==
    IF req.intent # "" THEN req.intent ELSE classify(req.input)

\* registerRetriever(retriever), retriever.getName() = m
RegisterRetriever(m) ==
    /\ retrievers' = retrievers \cup {m}
    /\ UNCHANGED <<initialized, clock, queries, lastCall, pipeVars, unitVars>>

\* initialize that builds the retriever map anew
InitializeAnew ==
    /\ initialized' = TRUE
    /\ retrievers' = {}
    /\ lastCall' = LifecycleCall("initialize")
    /\ UNCHANGED <<clock, queries, pipeVars, unitVars>>

Initialize ==
    /\ initialized' = (IF initialized THEN initialized ELSE TRUE)
    /\ lastCall' = LifecycleCall("initialize")
    /\ UNCHANGED <<retrievers, clock, queries, pipeVars, unitVars>>

Dispose ==
    /\ initialized' = (IF ~initialized THEN initialized ELSE FALSE)
    /\ lastCall' = LifecycleCall("dispose")
    /\ UNCHANGED <<retrievers, clock, queries, pipeVars, unitVars>>

\* the wall clock advances
Tick ==
    /\ clock < MaxClock
    /\ clock' = clock + 1
    /\ UNCHANGED <<initialized, retrievers, queries, lastCall, pipeVars, unitVars>>

\* query(): from the call to the await of Promise.all.  Every retriever of the
\* strategy is looked up and, when registered, its retrieve() is invoked.
QueryStart(id, req) ==
    /\ queries[id].pc = "idle"
    /\ LET invalid == validate(initialized, req.tokenBudget)
           intent == resolveIntent(req)
           strategy == selectStrategy(intent)
           registered == {m \in Range(strategy.methods) : m \in retrievers}
       IN  queries' = [queries EXCEPT ![id] =
             IF invalid # ""
             THEN [IdleQuery EXCEPT !.pc = "done", !.request = req,
                                    !.outcome = Failure(invalid)]
             ELSE [IdleQuery EXCEPT !.pc = "awaiting", !.request = req,
                                    !.intent = intent, !.strategy = strategy,
                                    !.invoked = registered, !.pending = registered]]
    /\ UNCHANGED <<initialized, retrievers, clock, lastCall, pipeVars, unitVars>>

\* the promise of retriever m resolves with its candidates; Promise.all keeps
\* them unless it has already rejected
RetrieverResolves(id, m) ==
    /\ m \in queries[id].pending
    /\ LET retrievalQuery == [text |-> queries[id].request.input, limit |-> RetrievalLimit]
       IN  queries' = [queries EXCEPT
                ![id].pending = @ \ {m},
                ![id].lists[m] = IF queries[id].pc = "awaiting"
                                 THEN StubRetrieve(m, retrievalQuery) ELSE @]
    /\ UNCHANGED <<initialized, retrievers, clock, lastCall, pipeVars, unitVars>>

\* the promise of retriever m rejects: Promise.all rejects at once, with the
\* first rejection, and the rejection leaves query() through its await
RetrieverRejects(id, m) ==
    /\ m \in queries[id].pending
    /\ queries' = [queries EXCEPT
            ![id].pending = @ \ {m},
            ![id].failed = IF queries[id].pc = "awaiting" THEN @ \cup {m} ELSE @,
            ![id].pc = "done",
            ![id].outcome = IF queries[id].pc = "awaiting"
                            THEN Failure("RetrieverFailed") ELSE @]
    /\ UNCHANGED <<initialized, retrievers, clock, lastCall, pipeVars, unitVars>>

\* query(): from the resolution of Promise.all to the return
QueryFinish(id) ==
    /\ queries[id].pc = "awaiting"
    /\ queries[id].pending = {}
    /\ LET q == queries[id]
           candidateLists == [i \in DOMAIN q.strategy.methods |->
                                q.lists[q.strategy.methods[i]]]
           fusedCandidates == fuse(candidateLists)
           rankedCandidates == rank(fusedCandidates, q.intent, clock)
           inputTokens == countTokens(q.request.input)
           budgetAllocation == allocate(q.request.tokenBudget, inputTokens, q.intent)
           contextBudget == budgetAllocation.allocations.context
           packingResult == pack(rankedCandidates, contextBudget)
       IN  queries' = [queries EXCEPT
                ![id].pc = "done",
                ![id].fused = fusedCandidates,
                ![id].outcome =
                    IF budgetAllocation.error # ""
                    THEN Failure(budgetAllocation.error)
                    ELSE [kind |-> "result", error |-> "",
                          items |-> packingResult.items,
                          intent |-> q.intent,
                          tokensUsed |-> packingResult.tokensUsed,
                          retrievalMethods |-> q.strategy.methods]]
    /\ UNCHANGED <<initialized, retrievers, clock, lastCall, pipeVars, unitVars>>

\* the caller has the outcome and every retriever of the call has settled
QueryReturn(id) ==
    /\ queries[id].pc = "done"
    /\ queries[id].pending = {}
    /\ queries' = [queries EXCEPT ![id] = IdleQuery]
    /\ UNCHANGED <<initialized, retrievers, clock, lastCall, pipeVars, unitVars>>

\* one caller: a query() call at a time, interleaved with the lifecycle calls
Next ==
    \/ Initialize
    \/ Dispose
    \/ \E m \in Methods : RegisterRetriever(m)
    \/ \E req \in Requests : QueryStart(1, req)
    \/ \E m \in Methods : RetrieverResolves(1, m)
    \/ \E m \in Methods : RetrieverRejects(1, m)
    \/ QueryFinish(1)
    \/ QueryReturn(1)

Spec == Init /\ [][Next]_vars

---------------------------------------------------------------------------
(* Two query() calls against an initialized engine whose retrievers and    *)
(* stores do not change, while the wall clock advances                     *)

DetRequests ==
    {[input |-> InputFix, intent |-> "", tokenBudget |-> 240],
     [input |-> InputWhat, intent |-> "explain", tokenBudget |-> 240]}

DetInit ==
    /\ initialized = TRUE
    /\ retrievers \in SUBSET Methods
    /\ clock = 0
    /\ queries = [id \in QueryIds |-> IdleQuery]
    /\ lastCall = [name |-> "initialize", count |-> 1]
    /\ pcPipe = "off"
    /\ pipeIn = <<>>
    /\ pipeRanked = <<>>
    /\ pipePacked = <<>>
    /\ call = NoCall
    /\ cache = {}
    /\ secrets = NoSecrets
    /\ keyLog = NoKeys

DetNext ==
    \/ Tick
    \/ \E id \in QueryIds, req \in DetRequests : QueryStart(id, req)
    \/ \E id \in QueryIds, m \in Methods : RetrieverResolves(id, m)
    \/ \E id \in QueryIds : QueryFinish(id)

SpecDeterminism == DetInit /\ [][DetNext]_vars

---------------------------------------------------------------------------
(* Ranker.rank and PromptPacker.pack applied to candidate lists in every   *)
(* order                                                                   *)

PathC == <<"c", ".", "t", "s">>
\* a path of 40 dotted segments: 41 tokens
PathDots == Repeat(<<"d", ".">>, 40) \o <<"t", "s">>

Pool ==
    {Candidate(PathA, SmallContent, Tenths(9), "semantic", <<1, 10>>, <<0>>, "function"),
     Candidate(PathB, SmallContent, Tenths(9), "semantic", <<1, 10>>, <<0>>, "function"),
     Candidate(PathA, OtherContent, Tenths(8), "lexical", <<20, 30>>, <<>>, ""),
     Candidate(PathC, BigContent, Tenths(7), "semantic", <<1, 200>>, <<>>, "class"),
     Candidate(PathATest, TestContent, Tenths(5), "lexical", <<>>, <<>>, ""),
     Candidate(PathDots, SmallContent, Tenths(6), "lexical", <<1, 10>>, <<>>, "")}

\* the lists of at most MaxCands different candidates of the pool
CandidateLists ==
    UNION {{l \in [1..n -> Pool] : \A i, j \in 1..n : l[i] = l[j] => i = j} :
           n \in 0..MaxCands}

PackBudgets == {0, 22, 30, 101, 150}

PipeInit ==
    /\ initialized = FALSE
    /\ retrievers = {}
    /\ clock = 0
    /\ queries = [id \in QueryIds |-> IdleQuery]
    /\ lastCall = [name |-> "none", count |-> 0]
    /\ pcPipe = "rank"
    /\ pipeIn \in [candidates : CandidateLists, intent : Intents,
                   tokenBudget : PackBudgets, now : 0..MaxClock]
    /\ pipeRanked = <<>>
    /\ pipePacked = <<>>
    /\ call = NoCall
    /\ cache = {}
    /\ secrets = NoSecrets
    /\ keyLog = NoKeys

PipeRank ==
    /\ pcPipe = "rank"
    /\ pipeRanked' = rank(pipeIn.candidates, pipeIn.intent, pipeIn.now)
    /\ pcPipe' = "pack"
    /\ UNCHANGED <<engineVars, unitVars, pipeIn, pipePacked>>

PipePack ==
    /\ pcPipe = "pack"
    /\ pipePacked' = pack(pipeRanked, pipeIn.tokenBudget)
    /\ pcPipe' = "done"
    /\ UNCHANGED <<engineVars, unitVars, pipeIn, pipeRanked>>

PipeNext == PipeRank \/ PipePack

SpecPipeline == PipeInit /\ [][PipeNext]_vars

---------------------------------------------------------------------------
(* BudgetAllocator.allocate called on its own *)

\* no engine call is made and the stand-alone pipeline is off
EngineIdle ==
    /\ initialized = FALSE
    /\ retrievers = {}
    /\ clock = 0
    /\ queries = [id \in QueryIds |-> IdleQuery]
    /\ lastCall = [name |-> "none", count |-> 0]
    /\ pcPipe = "off"
    /\ pipeIn = <<>>
    /\ pipeRanked = <<>>
    /\ pipePacked = <<>>
    /\ secrets = NoSecrets
    /\ keyLog = NoKeys

Called(op, args) == [pc |-> "called", op |-> op, args |-> args, result |-> <<>>]

AllocTotals == {0, 61, 63, 75, 162, 1060, 13400, 20000}
AllocInputs == {0, 2, 15}

AllocInit ==
    /\ EngineIdle
    /\ call \in {Called("allocate", a) :
                    a \in [totalBudget : AllocTotals, inputTokens : AllocInputs,
                           intent : Intents \cup {""}]}
    /\ cache = {}

Allocate ==
    /\ call.pc = "called"
    /\ call.op = "allocate"
    /\ call' = [call EXCEPT
                    !.pc = "returned",
                    !.result = allocate(call.args.totalBudget, call.args.inputTokens,
                                        call.args.intent)]
    /\ UNCHANGED <<engineVars, pipeVars, cache, keyVars>>

SpecAllocator == AllocInit /\ [][Allocate]_vars

---------------------------------------------------------------------------
(* The retrievers called on their own, each against an index of its store *)

MaxHits == 3        \* most records of a pool in an index
ManyRecords == 11   \* records of the large index of recent files
RetrieveNow == 30   \* Date.now() during the call, in hours

Typescript == <<"t", "y", "p", "e", "s", "c", "r", "i", "p", "t">>
FixContent == <<"f", "i", "x", " ", "f", "o", "o">>
InputIsIt == <<"i", "s", " ", "i", "t">>

\* the records of each store, in the order in which the store answers.
\* Cosines: 0.9, 0.5, 0.2, -0.4.  BM25 scores: 15, 0.5, 0.1, 0.05.
\* Modification times: one hour after now, 1, 3 and 28 hours before now.
VectorPool ==
    <<StoreRecord(PathA, FixContent, <<1, 10>>, Typescript, <<0>>, Tenths(9)),
      StoreRecord(PathB, SmallContent, <<1, 10>>, "", <<>>, Tenths(5)),
      StoreRecord(PathATest, TestContent, <<>>, Typescript, <<>>, Tenths(2)),
      StoreRecord(PathA, OtherContent, <<20, 30>>, Typescript, <<>>, 0 - Tenths(4))>>
FtsPool ==
    <<StoreRecord(PathA, FixContent, <<1, 10>>, Typescript, <<0>>, 15 * Scale),
      StoreRecord(PathB, SmallContent, <<1, 10>>, "", <<>>, Scale \div 2),
      StoreRecord(PathATest, TestContent, <<>>, Typescript, <<>>, Scale \div 10),
      StoreRecord(PathA, OtherContent, <<20, 30>>, Typescript, <<>>, Scale \div 20)>>
FilePool ==
    <<StoreRecord(PathB, SmallContent, <<1, 10>>, "", <<RetrieveNow + 1>>, 0),
      StoreRecord(PathA, FixContent, <<1, 10>>, Typescript, <<RetrieveNow - 1>>, 0),
      StoreRecord(PathATest, TestContent, <<>>, Typescript, <<RetrieveNow - 3>>, 0),
      StoreRecord(PathA, OtherContent, <<20, 30>>, Typescript, <<RetrieveNow - 28>>, 0)>>

\* ManyRecords files modified one after the other in the hours before now
ManyFiles ==
    [i \in 1..ManyRecords |->
        StoreRecord(PathA, FixContent, <<i, i>>, Typescript, <<RetrieveNow - i>>, 0)]

\* the indexes of at most MaxHits records of a pool, in the order of the pool
SubIndexes(pool) ==
    {[i \in 1..Len(SelectSeq(pool, LAMBDA r : r \in chosen)) |->
        SelectSeq(pool, LAMBDA r : r \in chosen)[i]] :
     chosen \in {c \in SUBSET Range(pool) : Cardinality(c) <= MaxHits}}

Indexes(m) ==
    CASE m = "semantic" -> SubIndexes(VectorPool)
      [] m = "lexical" -> SubIndexes(FtsPool)
      [] m = "recent_edits" -> SubIndexes(FilePool) \cup {ManyFiles}
      [] OTHER -> {<<>>}

RetrievalQueries ==
    [text : {InputFix, InputIsIt},
     limit : {<<>>, <<1>>, <<2>>},
     minScore : {<<>>, <<Tenths(3)>>},
     filePatterns : {<<>>, <<PathA>>},
     languages : {<<>>, <<Typescript>>}]

RetrieveInit ==
    /\ EngineIdle
    /\ call \in UNION {{Called("retrieve", [method |-> m, query |-> q, index |-> x,
                                             now |-> RetrieveNow]) :
                            q \in RetrievalQueries, x \in Indexes(m)} :
                       m \in Methods}
    /\ cache = {}

\* IRetriever.retrieve of the retriever of the method
Retrieve ==
    /\ call.pc = "called"
    /\ call.op = "retrieve"
    /\ LET a == call.args
       IN  call' = [call EXCEPT
                !.pc = "returned",
                !.result =
                    CASE a.method = "semantic" -> SemanticRetrieve(a.query, a.index)
                      [] a.method = "lexical" -> LexicalRetrieve(a.query, a.index)
                      [] a.method = "recent_edits" ->
                            RecentEditsRetrieve(a.query, a.index, a.now)
                      [] OTHER -> DependencyRetrieve(a.query)]
    /\ UNCHANGED <<engineVars, pipeVars, cache, keyVars>>

SpecRetrievers == RetrieveInit /\ [][Retrieve]_vars

---------------------------------------------------------------------------
(* A TokenCounter called on its own, any number of times *)

MaxTexts == 2       \* most texts given to countTokensInTexts

TextNumbers == <<"a", "1", " ", "b", "2", "2", ".">>
TextCommas == <<"x", ",", " ", "y", "z">>
TextDigits == <<"1", "2", " ", "3", ";", "4">>
CountedTexts == {<<>>, InputFix, TextNumbers, TextCommas, TextDigits}

Returns(op, args, result) ==
    [pc |-> "returned", op |-> op, args |-> args, result |-> result]

CounterInit ==
    /\ EngineIdle
    /\ call = NoCall
    /\ cache = {}

CountTokens(text) ==
    /\ LET r == countTokensCached(cache, text)
       IN  /\ call' = Returns("countTokens", text, r.value)
           /\ cache' = r.cache
    /\ UNCHANGED <<engineVars, pipeVars, keyVars>>

CountTokensInTexts(texts) ==
    /\ LET r == countTokensInTexts(cache, texts)
       IN  /\ call' = Returns("countTokensInTexts", texts, r.value)
           /\ cache' = r.cache
    /\ UNCHANGED <<engineVars, pipeVars, keyVars>>

ClearCache ==
    /\ call' = Returns("clearCache", <<>>, <<>>)
    /\ cache' = {}
    /\ UNCHANGED <<engineVars, pipeVars, keyVars>>

CounterNext ==
    \/ \E text \in CountedTexts : CountTokens(text)
    \/ \E n \in 0..MaxTexts : \E texts \in [1..n -> CountedTexts] :
            CountTokensInTexts(texts)
    \/ ClearCache

SpecTokenCounter == CounterInit /\ [][CounterNext]_vars

---------------------------------------------------------------------------
(* CandidateFusion.fuse called on its own, on the lists of two retrievers *)

MaxListLen == 2     \* longest list of a retriever

NineWords ==
    <<"a", "a", "a", " ", "b", "b", "b", " ", "c", "c", "c", " ", "d", "d", "d", " ",
      "e", "e", "e", " ", "f", "f", "f", " ", "g", "g", "g", " ", "h", "h", "h", " ",
      "i", "i", "i">>
TenWords == NineWords \o <<" ", "j", "j", "j">>
ShortWords == <<"a", " ", "b">>

\* chunks that share lines of a file, chunks of different files with the same
\* or nearly the same words, and chunks without a word of more than 2 letters
FusionPool ==
    <<Candidate(PathA, SmallContent, Tenths(9), "", <<1, 10>>, <<>>, ""),
      Candidate(PathA, OtherContent, Tenths(8), "", <<10, 15>>, <<>>, ""),
      Candidate(PathB, SmallContent, Tenths(7), "", <<1, 10>>, <<>>, ""),
      Candidate(PathB, NineWords, Tenths(6), "", <<20, 30>>, <<>>, ""),
      Candidate(PathC, TenWords, Tenths(5), "", <<>>, <<>>, ""),
      Candidate(PathC, ShortWords, Tenths(4), "", <<1, 2>>, <<>>, ""),
      Candidate(PathATest, ShortWords, Tenths(3), "", <<>>, <<>>, "")>>

\* the lists a retriever of method m can return: at most MaxListLen chunks of
\* the pool, by descending score
ListsOf(m) ==
    {[i \in 1..Len(SelectSeq(FusionPool, LAMBDA c : c \in chosen)) |->
        [SelectSeq(FusionPool, LAMBDA c : c \in chosen)[i] EXCEPT !.method = m]] :
     chosen \in {c \in SUBSET Range(FusionPool) : Cardinality(c) <= MaxListLen}}

FuseInit ==
    /\ EngineIdle
    /\ call \in {Called("fuse", <<semantic, lexical>>) :
                    semantic \in ListsOf("semantic"), lexical \in ListsOf("lexical")}
    /\ cache = {}

\* fuse(candidateLists); the result keeps the fused candidates of step 2
Fuse ==
    /\ call.pc = "called"
    /\ call.op = "fuse"
    /\ call' = [call EXCEPT
                    !.pc = "returned",
                    !.result = [fused |-> fuseScores(call.args),
                                final |-> fuse(call.args)]]
    /\ UNCHANGED <<engineVars, pipeVars, cache, keyVars>>

SpecFusion == FuseInit /\ [][Fuse]_vars

---------------------------------------------------------------------------
(* TruncationStrategy.truncate called on its own *)

TruncationPool ==
    {Candidate(PathA, SmallContent, Tenths(9), "semantic", <<1, 10>>, <<>>, ""),
     Candidate(PathA, OtherContent, Tenths(8), "lexical", <<20, 30>>, <<>>, ""),
     Candidate(PathC, BigContent, Tenths(7), "semantic", <<1, 200>>, <<>>, ""),
     Candidate(PathATest, TestContent, Tenths(5), "lexical", <<>>, <<>>, "")}

\* the lists of at most MaxCands different candidates of the pool, in any order
TruncationLists ==
    UNION {{l \in [1..n -> TruncationPool] : \A i, j \in 1..n : l[i] = l[j] => i = j} :
           n \in 0..MaxCands}

TruncationBudgets == {0, 2, 5, 50, 200}

TruncateInit ==
    /\ EngineIdle
    /\ call \in {Called("truncate", a) :
                    a \in [candidates : TruncationLists,
                           tokenBudget : TruncationBudgets,
                           mode : TruncationModes]}
    /\ cache = {}

Truncate ==
    /\ call.pc = "called"
    /\ call.op = "truncate"
    /\ call' = [call EXCEPT
                    !.pc = "returned",
                    !.result = truncate(call.args.candidates, call.args.tokenBudget,
                                        call.args.mode)]
    /\ UNCHANGED <<engineVars, pipeVars, cache, keyVars>>

SpecTruncation == TruncateInit /\ [][Truncate]_vars

---------------------------------------------------------------------------
(* PromptPacker.pack called on its own *)

\* a chunk of maxTokensPerItem semicolons: more than maxTokensPerItem tokens
HugeContent == Repeat(<<";">>, maxTokensPerItem)

PackerPool ==
    {Candidate(PathB, HugeContent, Tenths(9), "semantic", <<1, 2>>, <<>>, ""),
     Candidate(PathA, SmallContent, Tenths(8), "semantic", <<1, 10>>, <<>>, ""),
     Candidate(PathC, BigContent, Tenths(7), "semantic", <<1, 200>>, <<>>, ""),
     Candidate(PathATest, TestContent, Tenths(5), "lexical", <<>>, <<>>, "")}

\* the lists of at most MaxCands different candidates of the pool, in any order
PackerLists ==
    UNION {{l \in [1..n -> PackerPool] : \A i, j \in 1..n : l[i] = l[j] => i = j} :
           n \in 0..MaxCands}

PackerBudgets == {0, 30, 101, 1100}

PackInit ==
    /\ EngineIdle
    /\ call \in {Called("pack", a) :
                    a \in [candidates : PackerLists, tokenBudget : PackerBudgets]}
    /\ cache = {}

Pack ==
    /\ call.pc = "called"
    /\ call.op = "pack"
    /\ call' = [call EXCEPT
                    !.pc = "returned",
                    !.result = pack(call.args.candidates, call.args.tokenBudget)]
    /\ UNCHANGED <<engineVars, pipeVars, cache, keyVars>>

SpecPacker == PackInit /\ [][Pack]_vars

---------------------------------------------------------------------------
(* A SecureApiKeyManager called any number of times, one call at a time *)

ApiKeysInit ==
    /\ EngineIdle
    /\ call = NoCall
    /\ cache = {}

StoreApiKey(provider, apiKey) ==
    /\ secrets' = storeApiKey(secrets, provider, apiKey)
    /\ keyLog' = [keyLog EXCEPT ![provider] = <<apiKey>>]
    /\ call' = Returns("storeApiKey", [provider |-> provider, apiKey |-> apiKey], <<>>)
    /\ UNCHANGED <<engineVars, pipeVars, cache>>

DeleteApiKey(provider) ==
    /\ secrets' = deleteApiKey(secrets, provider)
    /\ keyLog' = [keyLog EXCEPT ![provider] = <<>>]
    /\ call' = Returns("deleteApiKey", [provider |-> provider], <<>>)
    /\ UNCHANGED <<engineVars, pipeVars, cache>>

\* a migration that has a key to migrate is a storeApiKey call
MigrateFromConfig(provider, apiKey) ==
    /\ secrets' = migrateFromConfig(secrets, provider, apiKey)
    /\ keyLog' = IF hasKeyToMigrate(apiKey)
                 THEN [keyLog EXCEPT ![provider] = <<apiKey>>]
                 ELSE keyLog
    /\ call' = Returns("migrateFromConfig",
                       [provider |-> provider, apiKey |-> apiKey], <<>>)
    /\ UNCHANGED <<engineVars, pipeVars, cache>>

GetApiKey(provider) ==
    /\ call' = Returns("getApiKey", [provider |-> provider],
                       getApiKey(secrets, provider))
    /\ UNCHANGED <<engineVars, pipeVars, cache, keyVars>>

HasApiKey(provider) ==
    /\ call' = Returns("hasApiKey", [provider |-> provider],
                       hasApiKey(secrets, provider))
    /\ UNCHANGED <<engineVars, pipeVars, cache, keyVars>>

ApiKeysNext ==
    \/ \E p \in Providers, k \in ApiKeys : StoreApiKey(p, k)
    \/ \E p \in Providers : DeleteApiKey(p)
    \/ \E p \in Providers, k \in ApiKeys : MigrateFromConfig(p, k)
    \/ \E p \in Providers : GetApiKey(p)
    \/ \E p \in Providers : HasApiKey(p)

SpecApiKeys == ApiKeysInit /\ [][ApiKeysNext]_vars

---------------------------------------------------------------------------
(* Properties *)

Done(id) == queries[id].pc = "done"
Returned(id) == Done(id) /\ queries[id].outcome.kind = "result"
Validated(id) ==
    queries[id].outcome.error \notin {"NotInitialized", "TokenBudgetMustBePositive"}
\* total budget minus system tokens, reserved tokens and the tokens of the input
Available(req) == req.tokenBudget - 50 - 10 - countTokens(req.input)

\* the code units of the characters used, ascending
CharOrder ==
    <<"\t", "\n", " ", "!", "(", ")", ",", "-", ".">> \o Digits \o
    <<":", ";", "<", ">", "?">> \o UpperCase \o <<"[", "]", "_">> \o LowerCase \o
    <<"{", "|", "}">>
CharCode(c) == CHOOSE i \in DOMAIN CharOrder : CharOrder[i] = c

\* a <= b in the order of strings
RECURSIVE StrLeq(_, _)
StrLeq(a, b) ==
    IF a = <<>> THEN TRUE
    ELSE IF b = <<>> THEN FALSE
    ELSE IF Head(a) # Head(b) THEN CharCode(Head(a)) < CharCode(Head(b))
    ELSE StrLeq(Tail(a), Tail(b))

LineStart(c) == IF c.lineRange = <<>> THEN 0 ELSE c.lineRange[1]

\* (a.filePath, a.lineRange.start) <= (b.filePath, b.lineRange.start)
TieOrdered(a, b) ==
    IF a.filePath = b.filePath THEN LineStart(a) <= LineStart(b)
    ELSE StrLeq(a.filePath, b.filePath)

\* C1: pack never reports more tokens than the budget it was given, and the
\* tokens it reports are the sum of the measured tokens of the items it emits.
C1_PackWithinBudget ==
    pcPipe = "done" =>
        /\ pipePacked.tokensUsed =
              SumSeq([k \in DOMAIN pipePacked.items |->
                        countItemTokens(pipePacked.items[k])])
        /\ pipePacked.tokensUsed <= pipeIn.tokenBudget

\* C2: a query with a feasible budget in which one retriever failed still
\* returns a ContextResult.
C2_RetrieverFailureIsolated ==
    \A id \in QueryIds :
        (Done(id) /\ Cardinality(queries[id].failed) = 1
            /\ Available(queries[id].request) > 0)
        => queries[id].outcome.kind = "result"

\* C3: two queries with the same request against the same retrievers and
\* stores that both return, return the same ContextResult.
C3_Determinism ==
    (Returned(1) /\ Returned(2) /\ queries[1].request = queries[2].request)
    => queries[1].outcome = queries[2].outcome

\* C4: the ranked list is in descending score order with ties in ascending
\* (file path, first line) order, and the packed items follow the ranked list.
C4_RankOrder ==
    /\ pcPipe \in {"pack", "done"} =>
        \A i, j \in DOMAIN pipeRanked :
            i < j =>
                /\ pipeRanked[i].score >= pipeRanked[j].score
                /\ pipeRanked[i].score = pipeRanked[j].score
                    => TieOrdered(pipeRanked[i], pipeRanked[j])
    /\ pcPipe = "done" =>
        \A k \in DOMAIN pipePacked.items :
            pipePacked.items[k].name = pipeRanked[k].filePath

\* C5: a query made when the last lifecycle call is not initialize fails as
\* not initialized, a query with a budget <= 0 on an initialized engine fails
\* as an invalid budget; neither invokes a retriever nor returns a result.
C5_EarlyFailure(id) ==
    LET q == queries[id]'
    IN  (queries[id].pc = "idle" /\ q.pc # "idle") =>
            /\ lastCall.name # "initialize" =>
                    /\ q.pc = "done"
                    /\ q.outcome = Failure("NotInitialized")
                    /\ q.invoked = {} /\ q.pending = {}
            /\ (lastCall.name = "initialize" /\ q.request.tokenBudget <= 0) =>
                    /\ q.pc = "done"
                    /\ q.outcome = Failure("TokenBudgetMustBePositive")
                    /\ q.invoked = {} /\ q.pending = {}
C5_ValidationFailures ==
    /\ [][\A id \in QueryIds : C5_EarlyFailure(id)]_vars
    /\ [](\A id \in QueryIds :
            (Done(id) /\ ~Validated(id)) =>
                queries[id].outcome.kind = "error" /\ queries[id].invoked = {})
C5_Witness ==
    /\ queries[1].outcome = Failure("NotInitialized")
    /\ lastCall.name = "dispose"

\* C6: a validated query in which no retriever failed fails, with the
\* insufficient-budget error, exactly when the available budget is <= 0.
C6_BudgetFeasibility ==
    \A id \in QueryIds :
        (Done(id) /\ Validated(id) /\ queries[id].failed = {}) =>
            IF Available(queries[id].request) <= 0
            THEN queries[id].outcome = Failure("InsufficientBudget")
            ELSE queries[id].outcome.kind = "result"
C6_Witness ==
    /\ Returned(1)
    /\ queries[1].request.tokenBudget =
            50 + 10 + countTokens(queries[1].request.input) + 1

\* C7: every initialize or dispose call leaves the engine initialized iff it
\* was initialize, and changes neither the retrievers nor the queries; so a
\* repeated call changes nothing and initialize, dispose, initialize ends as
\* one initialize does.
C7_LifecycleIdempotent ==
    /\ [][lastCall' # lastCall =>
            /\ initialized' = (lastCall'.name = "initialize")
            /\ retrievers' = retrievers
            /\ queries' = queries]_vars
    /\ [](initialized <=> lastCall.name = "initialize")
C7_Witness ==
    /\ initialized
    /\ lastCall = [name |-> "initialize", count |-> 3]
    /\ retrievers # {}

C9_MethodsThatRan ==
    \A id \in QueryIds :
        LET q == queries[id]
            Ran(m) == m \in q.invoked \ q.failed
        IN  Returned(id) =>
                q.outcome.retrievalMethods = SelectSeq(q.strategy.methods, Ran)

\* the normative table: methods in order, weights in tenths
NormativeMethods(intent) ==
    CASE intent \in {"explain", "generate"} -> <<"semantic", "lexical", "dependency">>
      [] intent = "bug_fix" -> <<"recent_edits", "semantic", "dependency", "lexical">>
      [] intent \in {"refactor", "test"} -> <<"dependency", "semantic", "lexical">>
NormativeTenths(intent) ==
    CASE intent \in {"explain", "generate"} -> <<6, 3, 1>>
      [] intent = "bug_fix" -> <<4, 3, 2, 1>>
      [] intent = "refactor" -> <<5, 4, 1>>
      [] intent = "test" -> <<4, 4, 2>>

\* C10: the strategy selected for a query is the normative one for its intent;
\* its weighted methods are its listed methods, no method is listed twice, the
\* weights sum to at most 1, and recent_edits occurs only for bug_fix, first.
C10_StrategyTable ==
    \A id \in QueryIds :
        LET q == queries[id]
            st == q.strategy
        IN  (q.pc # "idle" /\ Validated(id)) =>
                /\ st.methods = NormativeMethods(q.intent)
                /\ DOMAIN st.weights = Range(st.methods)
                /\ \A n \in DOMAIN st.methods :
                        st.weights[st.methods[n]] * 10 = NormativeTenths(q.intent)[n] * Scale
                /\ SumSeq([n \in DOMAIN st.methods |-> st.weights[st.methods[n]]]) <= Scale
                /\ \A n, k \in DOMAIN st.methods : st.methods[n] = st.methods[k] => n = k
                /\ \A n \in DOMAIN st.methods :
                        st.methods[n] = "recent_edits" => (q.intent = "bug_fix" /\ n = 1)
C10_Witness ==
    /\ queries[1].pc = "awaiting"
    /\ queries[1].intent = "bug_fix"
    /\ queries[1].strategy.methods[1] = "recent_edits"
    /\ queries[1].strategy.weights["recent_edits"] * 10 = 4 * Scale

\* the percentages of the claim for an intent, in hundredths: <<context, task>>
C11_Percentages(intent) ==
    CASE intent = "explain" -> <<60, 5>>
      [] intent = "bug_fix" -> <<50, 10>>
      [] intent = "refactor" -> <<55, 10>>
      [] intent = "generate" -> <<40, 10>>
      [] intent = "test" -> <<50, 10>>
      [] OTHER -> <<50, 10>>

\* C11: every allocate that returns gives system 50, the input tokens, context
\* = the context percentage of the available budget rounded down and clamped
\* to 20..8000, task = the task percentage rounded down, output = what is left
\* of the total or 0; every section is >= 0.
C11_AllocationFormula ==
    (call.op = "allocate" /\ call.pc = "returned" /\ call.result.error = "") =>
        LET a == call.args
            available == a.totalBudget - 50 - 10 - a.inputTokens
            pct == C11_Percentages(a.intent)
            al == call.result.allocations
        IN  /\ al.system = 50
            /\ al.input = a.inputTokens
            /\ al.context = Min(8000, Max(20, (available * pct[1]) \div 100))
            /\ al.task = (available * pct[2]) \div 100
            /\ al.output = Max(0, a.totalBudget - 50 - a.inputTokens - al.context
                                  - al.task - 10)
            /\ 20 <= al.context /\ al.context <= 8000
            /\ al.task >= 0 /\ al.output >= 0 /\ al.input >= 0
C11_Witness ==
    /\ call.op = "allocate" /\ call.pc = "returned" /\ call.result.error = ""
    /\ call.args.intent = "refactor"
    /\ call.args.totalBudget = 1060 /\ call.args.inputTokens = 2
    /\ call.result.allocations.context = 548
    /\ call.result.allocations.task = 99

\* the 0-based ranks at which the chunk with this key occurs in a list
C12_RanksOf(list, key) == {r \in 0..(Len(list) - 1) : getCandidateKey(list[r + 1]) = key}

\* C12: when a chunk is returned by exactly two retrievers of a query, the
\* fused list holds it exactly once, with the score s/(s+1) where s is the sum
\* of weight/(60 + rank + 1) over the two, weight being the weight the
\* strategy of the query gives to the method.
C12_WeightedFusion ==
    \A id \in QueryIds :
        LET q == queries[id]
        IN  Returned(id) =>
            \A m1, m2 \in Range(q.strategy.methods) :
              \A r1 \in DOMAIN q.lists[m1], r2 \in DOMAIN q.lists[m2] :
                LET key == getCandidateKey(q.lists[m1][r1])
                    holders == {m \in Methods : C12_RanksOf(q.lists[m], key) # {}}
                    s == q.strategy.weights[m1] \div (60 + (r1 - 1) + 1)
                         + q.strategy.weights[m2] \div (60 + (r2 - 1) + 1)
                    hits == {n \in DOMAIN q.fused : getCandidateKey(q.fused[n]) = key}
                IN  (m1 # m2 /\ getCandidateKey(q.lists[m2][r2]) = key
                        /\ holders = {m1, m2})
                    => /\ Cardinality(hits) = 1
                       /\ \A n \in hits : q.fused[n].score = (s * Scale) \div (s + Scale)

C14_CacheTransparent ==
    /\ (call.op = "countTokens" /\ call.pc = "returned")
            => call.result = countTokensInternal(call.args)
    /\ (call.op = "countTokensInTexts" /\ call.pc = "returned")
            => call.result = SumSeq([i \in DOMAIN call.args |->
                                        countTokensInternal(call.args[i])])
C14_Witness ==
    /\ call.op = "countTokens" /\ call.pc = "returned"
    /\ call.args = TextDigits
    /\ call.result = 8
    /\ Cardinality(cache) = 3
    /\ <<TextDigits, 8>> \in cache
    /\ <<TextNumbers, 6>> \in cache

IsPrefix(p, t) == Len(p) <= Len(t) /\ SubSeq(t, 1, Len(p)) = p
DropPrefix(p, t) == SubSeq(t, Len(p) + 1, Len(t))
RECURSIVE SkipNewlines(_)
SkipNewlines(t) ==
    IF t # <<>> /\ Head(t) = "\n" THEN SkipNewlines(Tail(t)) ELSE t

\* the headers of the claim for a candidate: the file path line, then the
\* line-range line when the candidate has a line range
C15_Headers(c) ==
    <<"F", "i", "l", "e", ":", " ">> \o c.filePath \o <<"\n">> \o
    (IF c.lineRange # <<>>
     THEN <<"L", "i", "n", "e", "s", " ">> \o ToDecimal(c.lineRange[1]) \o <<"-">> \o
          ToDecimal(c.lineRange[2]) \o <<"\n">>
     ELSE <<>>)

\* C15: the content of every packed item is the file path header line, then
\* the line-range header line (iff the candidate has a line range), then the
\* excerpt of the candidate's content, then possibly the truncation marker;
\* the name of the item is the file path.
C15_ItemFormat ==
    pcPipe = "done" =>
        \A k \in DOMAIN pipePacked.items :
            LET c == pipeRanked[k]
                item == pipePacked.items[k]
                body == SkipNewlines(DropPrefix(C15_Headers(c), item.content))
            IN  /\ item.name = c.filePath
                /\ IsPrefix(C15_Headers(c), item.content)
                /\ \E n \in 0..Len(c.content) :
                        \/ body = SubSeq(c.content, 1, n)
                        \/ body = SubSeq(c.content, 1, n) \o TruncationMarker

\* duplicates: the same file with line ranges that share a line, or a Jaccard
\* similarity of the word sets of the contents of at least 9/10
C16_Duplicates(a, b) ==
    \/ /\ a.filePath = b.filePath
       /\ a.lineRange # <<>> /\ b.lineRange # <<>>
       /\ \E line \in a.lineRange[1]..a.lineRange[2] :
                b.lineRange[1] <= line /\ line <= b.lineRange[2]
    \/ LET wordsA == tokenize(a.content)
           wordsB == tokenize(b.content)
       IN  /\ wordsA \cup wordsB # {}
           /\ 10 * Cardinality(wordsA \cap wordsB) >= 9 * Cardinality(wordsA \cup wordsB)

\* C16: no two candidates of the list fuse returns are duplicates, and every
\* fused candidate that is not returned duplicates a returned candidate whose
\* fused score is at least as high.
C16_NoDuplicates ==
    (call.op = "fuse" /\ call.pc = "returned") =>
        LET final == call.result.final
            fused == call.result.fused
        IN  /\ \A i, j \in DOMAIN final :
                    i # j => ~C16_Duplicates(final[i], final[j])
            /\ \A n \in DOMAIN fused :
                    fused[n] \notin Range(final) =>
                        \E k \in DOMAIN final :
                            /\ C16_Duplicates(fused[n], final[k])
                            /\ final[k].score >= fused[n].score
C16_Witness ==
    /\ call.op = "fuse" /\ call.pc = "returned"
    /\ Len(call.result.fused) = 4
    /\ Len(call.result.final) = 2
    /\ call.result.final[1].filePath = PathA
    /\ call.result.final[2].content \in {NineWords, TenWords}

\* C17: the candidate of a file with the n-th highest final (four-signal)
\* score, n = 0, 1, ..., is ranked with that score times 1/(1+n), whatever
\* the order of the list given to rank, and the ranked list is in descending
\* order of the penalized scores.  (Stated for candidates whose final score
\* no other candidate of the file shares.)
C17_DiversityByFinalScore ==
    pcPipe \in {"pack", "done"} =>
        LET cands == pipeIn.candidates
            Final(c) == calculateFinalScore(c, pipeIn.intent, pipeIn.now)
        IN  /\ \A i \in DOMAIN cands :
                    LET c == cands[i]
                        sameFile == {j \in DOMAIN cands \ {i} :
                                        cands[j].filePath = c.filePath}
                        n == Cardinality({j \in sameFile : Final(cands[j]) > Final(c)})
                    IN  (\A j \in sameFile : Final(cands[j]) # Final(c)) =>
                            \E k \in DOMAIN pipeRanked :
                                pipeRanked[k] = [c EXCEPT !.score = Final(c) \div (1 + n)]
            /\ \A k, l \in DOMAIN pipeRanked :
                    k < l => pipeRanked[k].score >= pipeRanked[l].score

\* the record passes the file pattern and language filters of the query
PassesFilters(record, query) ==
    /\ query.filePatterns # <<>> =>
            \E i \in DOMAIN query.filePatterns :
                includes(record.filePath, query.filePatterns[i])
    /\ query.languages # <<>> =>
            \E i \in DOMAIN query.languages : record.language = query.languages[i]

\* the candidate was made of the record
MadeOf(candidate, record) ==
    /\ candidate.filePath = record.filePath
    /\ candidate.lineRange = record.lineRange
    /\ candidate.content = record.content

\* C18: of the top-limit vector hits that pass the filters, the semantic
\* retriever returns exactly those whose normalized score (c+1)/2 is at least
\* min_score (0.5 when the query gives none), with that score.
C18_SemanticMinScore ==
    (call.op = "retrieve" /\ call.pc = "returned" /\ call.args.method = "semantic") =>
        LET query == call.args.query
            limit == IF query.limit = <<>> THEN 10 ELSE query.limit[1]
            minScore == IF query.minScore = <<>> THEN Scale \div 2 ELSE query.minScore[1]
            index == call.args.index
        IN  \A i \in DOMAIN index :
                (i <= limit /\ PassesFilters(index[i], query)) =>
                    /\ (\E k \in DOMAIN call.result : MadeOf(call.result[k], index[i]))
                        <=> (index[i].score + Scale >= 2 * minScore)
                    /\ \A k \in DOMAIN call.result :
                            MadeOf(call.result[k], index[i]) =>
                                2 * call.result[k].score = index[i].score + Scale

\* C19: every candidate the lexical retriever returns has a normalized score
\* that is at least the min_score of the query, or 0.1 when the query gives
\* none.
C19_LexicalMinScore ==
    (call.op = "retrieve" /\ call.pc = "returned" /\ call.args.method = "lexical") =>
        LET query == call.args.query
            minScore == IF query.minScore = <<>> THEN Scale \div 10 ELSE query.minScore[1]
        IN  \A k \in DOMAIN call.result : call.result[k].score >= minScore

IsSuffix(p, t) == Len(p) <= Len(t) /\ SubSeq(t, Len(t) - Len(p) + 1, Len(t)) = p

\* the tokens of candidate i of the ranked list, packed whole
C20_Whole(i) == countItemTokens(formatContextItem(pipeRanked[i]))
\* the tokens of the first n candidates packed whole
C20_WholeUpTo(n) == SumSeq([i \in 1..n |-> C20_Whole(i)])
\* the number of leading candidates that fit whole in the budget
C20_Fitting ==
    Cardinality({n \in DOMAIN pipeRanked : C20_WholeUpTo(n) <= pipeIn.tokenBudget})
\* the budget that remains when the first candidate does not fit
C20_Remaining == pipeIn.tokenBudget - C20_WholeUpTo(C20_Fitting)
\* the tokens of the name, the description and the separator of candidate i
C20_Overhead(i) ==
    LET item == formatContextItem(pipeRanked[i])
    IN  countTokens(item.name) + countTokens(item.description)
        + countTokens(itemSeparator)

\* the item emitted last is candidate i with a content that ends with the marker
C20_TruncatedLast(i) ==
    /\ Len(pipePacked.items) = i
    /\ pipePacked.items[i].name = pipeRanked[i].filePath
    /\ IsSuffix(<<"\n", "\n", "[", ".", ".", ".", " ", "t", "r", "u", "n", "c", "a",
                  "t", "e", "d", " ", ".", ".", ".", "]">>, pipePacked.items[i].content)
    /\ pipePacked.truncatedCount = 1

\* C20 (as claimed): when a candidate does not fit whole, a truncated version
\* of it, ending with the marker, is emitted as the last item if more than 100
\* tokens remain, and nothing more is emitted if 100 tokens or less remain.
C20_TruncateOrStop ==
    (pcPipe = "done" /\ C20_Fitting < Len(pipeRanked)) =>
        IF C20_Remaining > 100
        THEN C20_TruncatedLast(C20_Fitting + 1)
        ELSE Len(pipePacked.items) = C20_Fitting /\ pipePacked.truncatedCount = 0

\* C20 (amended): the truncated version is emitted if more than 100 tokens
\* remain and more than 50 of them are left after the tokens of the item's
\* name, description and separator; otherwise nothing more is emitted.
C20_TruncateOrStopAmended ==
    (pcPipe = "done" /\ C20_Fitting < Len(pipeRanked)) =>
        IF C20_Remaining > 100
           /\ C20_Remaining - C20_Overhead(C20_Fitting + 1) > 50
        THEN C20_TruncatedLast(C20_Fitting + 1)
        ELSE Len(pipePacked.items) = C20_Fitting /\ pipePacked.truncatedCount = 0
C20_Witness ==
    /\ pcPipe = "done"
    /\ Len(pipeRanked) = 1
    /\ pipeRanked[1].content = BigContent
    /\ pipeIn.tokenBudget = 101
    /\ C20_TruncatedLast(1)

MarkerSuffix ==
    <<"\n", "\n", "[", ".", ".", ".", " ", "t", "r", "u", "n", "c", "a", "t", "e", "d",
      " ", ".", ".", ".", "]">>

\* candidate i of the ranked list, packed whole, uses up the budget exactly
C21_ExactFit(i) == C20_WholeUpTo(i) = pipeIn.tokenBudget

\* item i is candidate i in full: file and line headers, then the content of
\* the candidate, and no marker
C21_Whole(i) ==
    LET c == pipeRanked[i]
        item == pipePacked.items[i]
    IN  /\ item.name = c.filePath
        /\ IsSuffix(<<"\n", "\n">> \o c.content, item.content)
        /\ ~IsSuffix(MarkerSuffix, item.content)

\* C21: a candidate whose formatted item measures exactly the remaining budget
\* is emitted whole, its content unchanged and without the marker, and it is
\* not counted as truncated.
C21_ExactFitAccepted ==
    pcPipe = "done" =>
        \A i \in DOMAIN pipeRanked :
            C21_ExactFit(i) =>
                /\ Len(pipePacked.items) = i
                /\ C21_Whole(i)
                /\ pipePacked.packedCount = i
                /\ pipePacked.truncatedCount = 0
C21_Witness ==
    /\ pcPipe = "done"
    /\ Len(pipeRanked) = 2
    /\ C21_ExactFit(1)
    /\ pipePacked.packedCount = 1
    /\ pipePacked.tokensUsed = pipeIn.tokenBudget

\* item i is candidate i of the list in descending-score order, whole when
\* it is not the truncated one
C22_ItemOf(sorted, i) ==
    LET item == pipePacked.items[i]
        whole == formatContextItem(sorted[i])
    IN  /\ item.name = whole.name
        /\ item.description = whole.description
        /\ \/ item = whole
           \/ /\ i = Len(pipePacked.items)
              /\ pipePacked.truncatedCount = 1
              /\ IsSuffix(MarkerSuffix, item.content)

\* C22: the items are a prefix of the candidates in descending-score order;
\* packing stops at the first candidate that does not fit whole, which alone
\* may be emitted truncated, as the last item; no later candidate is emitted;
\* packedCount is the number of items and truncatedCount is at most 1.
C22_PrefixOfRanking ==
    pcPipe = "done" =>
        LET sorted == SortByScore(pipeRanked)
            n == Len(pipePacked.items)
        IN  /\ \A i, j \in DOMAIN sorted : i < j => sorted[i].score >= sorted[j].score
            /\ n <= Len(sorted)
            /\ \A i \in 1..n : C22_ItemOf(sorted, i)
            /\ pipePacked.packedCount = n
            /\ pipePacked.truncatedCount <= 1
            /\ n = C20_Fitting + pipePacked.truncatedCount
C22_Witness ==
    /\ pcPipe = "done"
    /\ Len(pipeRanked) = 2
    /\ C20_Fitting = 0
    /\ C20_Whole(2) <= pipeIn.tokenBudget
    /\ pipePacked.items = <<>>

\* C23: the retrievers of a query are all dispatched in one step, before any
\* of them is awaited; fusion and the later stages run only when every
\* dispatched retriever has completed or failed; and the query has no outcome,
\* result or error, while one of its retrievers is still running.
C23_RetrieversJoined ==
    /\ [][\A id \in QueryIds :
            /\ queries[id].pc # "idle" /\ queries'[id].pc # "idle"
                => queries'[id].invoked = queries[id].invoked
            /\ queries'[id].fused # queries[id].fused => queries[id].pending = {}]_vars
    /\ [](\A id \in QueryIds :
            /\ queries[id].pending \subseteq queries[id].invoked
            /\ queries[id].outcome.kind # "none" => queries[id].pending = {})

\* the whitespace-separated tokens of a text that have 3 characters or more
C24_LongTokens(text) ==
    {t \in {SubSeq(text, i, j) : i \in DOMAIN text, j \in DOMAIN text} :
        /\ Len(t) >= 3
        /\ \A k \in DOMAIN t : ~IsSpace(t[k])
        /\ \E i \in DOMAIN text :
              /\ i + Len(t) - 1 <= Len(text)
              /\ SubSeq(text, i, i + Len(t) - 1) = t
              /\ (i = 1 \/ IsSpace(text[i - 1]))
              /\ (i + Len(t) - 1 = Len(text) \/ IsSpace(text[i + Len(t)]))}

\* the candidate has a long token of the text in its content or its path,
\* whatever the case of the letters
C24_Matches(c, text) ==
    \E t \in C24_LongTokens(text) :
        \/ includes(toLowerCase(c.content), toLowerCase(t))
        \/ includes(toLowerCase(c.filePath), toLowerCase(t))

C24_RecentEditsReturned ==
    call.pc = "returned" /\ call.op = "retrieve" /\ call.args.method = "recent_edits"

\* C24 (as claimed): every candidate that the recent-edits retriever returns
\* has a token of 3 or more characters of the query text in its content or
\* its file path, whatever the query text.
C24_KeywordMatch ==
    C24_RecentEditsReturned =>
        \A i \in DOMAIN call.result : C24_Matches(call.result[i], call.args.query.text)

\* C24 (amended): the same, for every query text that has a token of 3 or
\* more characters.
C24_KeywordMatchAmended ==
    (C24_RecentEditsReturned /\ C24_LongTokens(call.args.query.text) # {}) =>
        \A i \in DOMAIN call.result : C24_Matches(call.result[i], call.args.query.text)
C24_Witness ==
    /\ C24_RecentEditsReturned
    /\ call.args.query.text = InputFix
    /\ call.args.query.limit = <<>>
    /\ call.args.query.filePatterns = <<>>
    /\ call.args.query.languages = <<>>
    /\ Len(call.args.index) = 3
    /\ \A i \in DOMAIN call.args.index :
            call.args.index[i].lastModified[1] >= RetrieveNow - timeWindowHours
    /\ Len(call.result) = 1

\* C25: in every mode and for every budget >= 0, truncate returns candidates
\* whose contents measure totalTokens in all, totalTokens is within the
\* budget, and the returned and the dropped candidates are all the candidates.
C25_TruncateFitsBudget ==
    (call.pc = "returned" /\ call.op = "truncate") =>
        LET r == call.result
        IN  /\ r.totalTokens =
                  SumSeq([i \in DOMAIN r.candidates |->
                            countTokens(r.candidates[i].content)])
            /\ r.totalTokens <= call.args.tokenBudget
            /\ Len(r.candidates) + r.droppedCount = Len(call.args.candidates)

\* C26: no item that pack emits measures more than maxTokensPerItem (1000)
\* tokens, whatever the budget and the size of the candidates.
C26_ItemsWithinMaximum ==
    (call.pc = "returned" /\ call.op = "pack") =>
        \A i \in DOMAIN call.result.items :
            countItemTokens(call.result.items[i]) <= 1000

\* C27: getApiKey gives the key of the last storeApiKey of the provider when no
\* deleteApiKey of it came after, and undefined otherwise; hasApiKey is true
\* iff getApiKey is defined; a store or a delete for one provider changes
\* nothing for another provider; and migrateFromConfig with an empty or
\* whitespace-only key writes nothing.
C27_KeyStore ==
    /\ [](\A p \in Providers :
            /\ getApiKey(secrets, p) = keyLog[p]
            /\ hasApiKey(secrets, p) <=> getApiKey(secrets, p) # <<>>)
    /\ []((call.op = "getApiKey" => call.result = keyLog[call.args.provider])
          /\ (call.op = "hasApiKey" =>
                (call.result <=> keyLog[call.args.provider] # <<>>)))
    /\ [][/\ call'.op \in {"storeApiKey", "deleteApiKey"} =>
                \A q \in Providers \ {call'.args.provider} :
                    /\ getApiKey(secrets', q) = getApiKey(secrets, q)
                    /\ hasApiKey(secrets', q) = hasApiKey(secrets, q)
           /\ (call'.op = "migrateFromConfig"
                /\ \A i \in DOMAIN call'.args.apiKey : IsSpace(call'.args.apiKey[i]))
                => secrets' = secrets]_vars

\* C28: no query produces a ContextResult while the engine is not initialized;
\* a query that ends after dispose() and before the next initialize() ends
\* with the not-initialized failure, also when it was awaiting its retrievers
\* when dispose() was called.
C28_NoResultAfterDispose ==
    [][\A id \in QueryIds :
        (queries[id].pc = "awaiting" /\ queries'[id].pc = "done"
            /\ queries'[id].outcome.kind = "result")
        => initialized]_vars

\* C29: the sections of a successful allocation never add up to more than the
\* total budget, and the context section is never more than the budget
\* available after the fixed costs and the input.
C29_NoOverCommit ==
    (call.op = "allocate" /\ call.pc = "returned" /\ call.result.error = "") =>
        LET a == call.args
            al == call.result.allocations
        IN  /\ al.system + al.input + al.context + al.task + al.output
                + call.result.reserved <= a.totalBudget
            /\ al.context <= a.totalBudget - 50 - 10 - a.inputTokens

\* C30: a query that fails because its budget is not positive or does not
\* cover the fixed costs and the input has invoked no retriever.
C30_BudgetCheckedBeforeRetrieval ==
    \A id \in QueryIds :
        (Done(id) /\ queries[id].outcome.kind = "error"
            /\ queries[id].outcome.error \in {"TokenBudgetMustBePositive",
                                              "InsufficientBudget"})
        => queries[id].invoked = {}

===========================================================================
